---- MODULE Spec2Model ----
(***************************************************************************)
(* A model of the Pwnagotchi plugin scripts:                               *)
(*   - src/eye-dev/eyes.py       the eye renderer and its animations       *)
(*   - src/gpiocontrol.py,                                                 *)
(*     src/gpiocontrol-editing.py  GPIO buttons and the rotary encoder     *)
(*   - src/gfxhatcontrol.py      the GFX HAT touch buttons                 *)
(*   - src/OLED-Stats*.py        the OLED status panels                    *)
(*   - src/eye-dev/eyes-pantilt.py  the eye renderer with pan/tilt servos   *)
(* Each script is a standalone program, so each has its own specification  *)
(* (SpecEyes, SpecGpio, SpecGfx, SpecOled, SpecPanTilt) over its own       *)
(* variables; the variables of the other scripts stay at their initial     *)
(* values. SpecGpioThreads and SpecEncoder follow gpiocontrol-editing.py's *)
(* callbacks on their threads and its encoder over its whole range, and    *)
(* SpecPanTiltLook the two threads of eyes-pantilt.py's look. SpecMain is  *)
(* main of eyes.py loading its two configuration files.                    *)
(***************************************************************************)
EXTENDS Integers, Sequences, FiniteSets, TLC

VARIABLES
    \* ---- src/eye-dev/eyes.py
    config,             \* the merged configuration dictionary (eye and screen sections)
    current_face,       \* global current_face
    current_offset_x,   \* global current_offset_x
    current_offset_y,   \* global current_offset_y
    current_curious,    \* global current_curious
    current_closed,     \* global current_closed
    pc,                 \* which animation loop of draw_eyes is running ("idle": none)
    call,               \* the arguments of the running call: direction, eye
    movement_speed,     \* draw_eyes' local movement_speed of the running animation
    curious,            \* draw_eyes' local curious of the running call
    target_offset_x,    \* draw_eyes' target_offset_x of the running look
    target_offset_y,    \* draw_eyes' target_offset_y of the running look
    blink_height_left,  \* draw_eyes' local blink_height_left of the running animation
    blink_height_right, \* draw_eyes' local blink_height_right of the running animation
    blink_direction,    \* draw_eyes' local blink_direction (-1 closing, 1 opening)
    frame,              \* the image last handed to device.display
    frame_parity,       \* frames displayed by the running call, modulo 2
    \* ---- src/gpiocontrol.py and src/gpiocontrol-editing.py
    gpio_file,          \* which of the two scripts runs: "gpiocontrol" or "editing"
    options,            \* self.options: the gpios (in file order) and the encoder section
    loaded,             \* on_loaded has run
    short_press_command, \* on_loaded's local short_press_command, which the lambdas close over
    long_press_command, \* on_loaded's local long_press_command, which the lambdas close over
    when_pressed,       \* per pin: whether Button.when_pressed is set
    when_held,          \* per pin: the command Button.when_held runs (None: unset; "cell":
                        \* the lambda reads long_press_command when it fires)
    when_released,      \* per pin: whether Button.when_released is set
    button_hold_flags,  \* self.button_hold_flags (editing)
    down,               \* the pin of the button held down, with whether hold_time passed
    steps,              \* self.encoder.steps
    previous_step,      \* self.previous_step (editing)
    event,              \* the last input event
    ran,                \* the commands run since the last press or rotation began
    last_ran,           \* the commands run by the handlers of the last event
    hold_thread,        \* the pin whose when_held callback gpiozero's hold thread has
                        \* called and whose body has not run yet (0: none)
    \* ---- src/gfxhatcontrol.py
    touch_options,      \* self.options['buttons']: per touch button, its section
    touch_loaded,       \* on_loaded has run
    touch_handlers,     \* per button: the commands the handler touch.on registered closes over
    button_hold_times,  \* self.button_hold_times
    touch_now,          \* time.time(), in clock ticks
    touch_event,        \* the last touch event: its kind, button and time
    last_press,         \* per button: the time of its most recent press event
    attempted,          \* the commands the last event's handler handed to runcommand
    executed,           \* the commands the last event's handler ran in a shell
    \* ---- src/OLED-Stats.py, src/OLED-Stats-subprocess.py, src/OLED-Statsv2.py
    oled_file,          \* which of the three scripts runs
    active,             \* self.active
    screen_index,       \* self.screen_index (OLED-Stats.py)
    ip_index,           \* self.ip_index
    last_update,        \* self.last_update (OLED-Stats.py)
    ip_last_update,     \* self.ip_last_update (OLED-Stats-subprocess.py)
    stats,              \* the cached stats: self.CPU, ..., self.time_str, by attribute name
    fetches,            \* how many times update_stats has run (OLED-Stats.py)
    oled_now,           \* time.time(), in seconds since the plugin was constructed
    oled1,              \* what the first display shows
    oled2,              \* what the second display shows
    oled_call,          \* the last hook the host called: its display writes, whether it raised
    \* ---- src/eye-dev/eyes-pantilt.py
    pt_config,          \* the merged configuration dictionary
    pt_current_face,    \* global current_face
    pt_current_offset_x, \* global current_offset_x
    pt_current_offset_y, \* global current_offset_y
    pt_current_curious, \* global current_curious
    pt_current_closed,  \* global current_closed: "False", "None", "left", "right", "both"
    pt_pc,              \* where the running call stands ("idle": no call runs)
    pt_call,            \* the running call, or the last one: its name and its eye argument
    pt_movement_speed,  \* draw_eyes' local movement_speed of the running animation
    pt_target_offset_x, \* look's target_offset_x
    pt_target_offset_y, \* look's target_offset_y
    pt_blink_height_left, \* draw_eyes' local blink_height_left of the running animation
    pt_blink_height_right, \* draw_eyes' local blink_height_right of the running animation
    pt_blink_direction, \* draw_eyes' local blink_direction (-1 closing, 1 opening)
    current_eyelid_positions, \* draw_eyes' local current_eyelid_positions (face change)
    servo,              \* look's servo thread: its state and the pan/tilt steps it issued
    pt_frame,           \* the image last handed to device.display
    pt_drew,            \* the running (or last) call has displayed a frame
    since_close_both,   \* an eye_close(eye="both") returned and eye_open was not called since
    closed_eyes,        \* the eyes closed (eye_close, draw_eyes(closed=...)) and not
                        \* opened again by an eye_open that names them
    last_call,          \* the call that returned last
    \* ---- src/eye-dev/eyes.py: main's configuration loading
    toml_files,         \* screenconfig.toml and eyeconfig.toml as they are on disk
    screen_config,      \* main's local screen_config
    render_config,      \* main's local render_config
    main_config,        \* main's local config, the two merged
    main_pc             \* where main is: "start", "screen", "render", "merged",
                        \* "device", "drawing"; or ended: "exit", "KeyError"

eyesVars == <<config, current_face, current_offset_x, current_offset_y, current_curious,
              current_closed, pc, call, movement_speed, curious, target_offset_x,
              target_offset_y, blink_height_left, blink_height_right, blink_direction, frame, frame_parity>>

gpioVars == <<gpio_file, options, loaded, short_press_command, long_press_command,
              when_pressed, when_held, when_released, button_hold_flags, down, steps,
              previous_step, event, ran, last_ran, hold_thread>>

gfxVars == <<touch_options, touch_loaded, touch_handlers, button_hold_times, touch_now,
             touch_event, last_press, attempted, executed>>

oledVars == <<oled_file, active, screen_index, ip_index, last_update, ip_last_update, stats,
              fetches, oled_now, oled1, oled2, oled_call>>

panTiltVars == <<pt_config, pt_current_face, pt_current_offset_x, pt_current_offset_y,
                 pt_current_curious, pt_current_closed, pt_pc, pt_call, pt_movement_speed,
                 pt_target_offset_x, pt_target_offset_y, pt_blink_height_left,
                 pt_blink_height_right, pt_blink_direction, current_eyelid_positions,
                 servo, pt_frame, pt_drew, since_close_both, closed_eyes,
                 last_call>>

mainVars == <<toml_files, screen_config, render_config, main_config, main_pc>>

vars == <<eyesVars, gpioVars, gfxVars, oledVars, panTiltVars, mainVars>>

\* What a step of one script leaves alone: the other scripts' variables
otherThanEyes == <<gpioVars, gfxVars, oledVars, panTiltVars, mainVars>>

otherThanGpio == <<eyesVars, gfxVars, oledVars, panTiltVars, mainVars>>

otherThanGfx == <<eyesVars, gpioVars, oledVars, panTiltVars, mainVars>>

otherThanOled == <<eyesVars, gpioVars, gfxVars, panTiltVars, mainVars>>

otherThanPanTilt == <<eyesVars, gpioVars, gfxVars, oledVars, mainVars>>

otherThanMain == <<eyesVars, gpioVars, gfxVars, oledVars, panTiltVars>>

--------------------------------------------------------------------------
(* Python's None for an optional argument is the empty sequence, a given   *)
(* value v is <<v>>.                                                       *)
None == <<>>

Some(v) == <<v>>

IsNone(a) == a = <<>>

Val(a) == a[1]

Abs(n) == IF n < 0 THEN -n ELSE n

Min(a, b) == IF a < b THEN a ELSE b

Max(a, b) == IF a > b THEN a ELSE b

--------------------------------------------------------------------------
(* src/eye-dev/eyes.py                                                     *)

\* DEFAULT_SCREEN_CONFIG and DEFAULT_RENDER_CONFIG
ScreenWidth == 128

ScreenHeight == 64

EyeDistance == 10

EyeWidth == 36

EyeHeight == 36

\* The eye heights a configuration file may set: the default, its half, ...
MaxHalvings == 1

EyeHeights == {EyeHeight \div (2 ^ k) : k \in 0..MaxHalvings}

Configs ==
    {[screen |-> [width |-> ScreenWidth, height |-> ScreenHeight],
      eye |-> [distance |-> EyeDistance,
               left |-> [width |-> EyeWidth, height |-> hl],
               right |-> [width |-> EyeWidth, height |-> hr]]] :
        hl \in EyeHeights, hr \in EyeHeights}

\* DEFAULT_SCREEN_CONFIG merged with DEFAULT_RENDER_CONFIG
DefaultConfig ==
    [screen |-> [width |-> ScreenWidth, height |-> ScreenHeight],
     eye |-> [distance |-> EyeDistance,
              left |-> [width |-> EyeWidth, height |-> EyeHeight],
              right |-> [width |-> EyeWidth, height |-> EyeHeight]]]

Directions == {"C", "L", "R", "T", "B", "TL", "TR", "BL", "BR"}

Speeds == {"fast", "medium", "slow", "unknown"}

Eyes == {"left", "right", "both"}

\* The faces a caller asks for (the eyelids they add are not part of the frame record)
Faces == {"angry"}

FaceArgs == {None} \cup {Some(f) : f \in Faces}

BoolArgs == {None, Some(TRUE), Some(FALSE)}

\* {"fast": 8, "medium": 4, "slow": 2}.get(speed, 4)
LookSpeed(speed) ==
    CASE speed = "fast" -> 8
      [] speed = "medium" -> 4
      [] speed = "slow" -> 2
      [] OTHER -> 4

\* {"fast": 12, "medium": 8, "slow": 4}.get(speed, 4)
BlinkSpeed(speed) ==
    CASE speed = "fast" -> 12
      [] speed = "medium" -> 8
      [] speed = "slow" -> 4
      [] OTHER -> 4

\* int(scale_factor * abs(offset_x) * size), scale_factor = 0.4 / (width // 2):
\* the floor of 2 * |offset_x| * size / (5 * (width // 2)).
CuriousDelta(cfg, offset_x, size) ==
    (2 * Abs(offset_x) * size) \div (5 * (cfg.screen.width \div 2))

\* The eye sizes draw_eyes computes: the curious effect, then the clamp to 2.
EyeSizes(cfg, offset_x, height_left, height_right, cur) ==
    LET wl == cfg.eye.left.width
        wr == cfg.eye.right.width
        dwl == CuriousDelta(cfg, offset_x, wl)
        dwr == CuriousDelta(cfg, offset_x, wr)
        dhl == CuriousDelta(cfg, offset_x, height_left)
        dhr == CuriousDelta(cfg, offset_x, height_right)
        grow == IF cur /\ offset_x < 0 THEN 1
                ELSE IF cur /\ offset_x > 0 THEN -1 ELSE 0
    IN  [width_left |-> Max(2, wl + grow * dwl),
         width_right |-> Max(2, wr - grow * dwr),
         height_left |-> Max(2, height_left + grow * dhl),
         height_right |-> Max(2, height_right - grow * dhr)]

\* The frame draw_eyes hands to device.display: the two eye rectangles
\* (x0, y0, x1, y1), with the heights asked for and the command that drew it.
DrawFrame(cfg, by, offset_x, offset_y, bh_left, bh_right, cur) ==
    LET eye_height_left == IF IsNone(bh_left) THEN cfg.eye.left.height ELSE Val(bh_left)
        eye_height_right == IF IsNone(bh_right) THEN cfg.eye.right.height ELSE Val(bh_right)
        s == EyeSizes(cfg, offset_x, eye_height_left, eye_height_right, cur)
        w == cfg.screen.width
        h == cfg.screen.height
        distance == cfg.eye.distance
    IN  [by |-> by,
         height_left |-> eye_height_left,
         height_right |-> eye_height_right,
         left_eye_coords |->
            <<w \div 2 - s.width_left - distance \div 2 + offset_x,
              h \div 2 - s.height_left \div 2 + offset_y,
              w \div 2 - distance \div 2 + offset_x,
              h \div 2 + s.height_left \div 2 + offset_y>>,
         right_eye_coords |->
            <<w \div 2 + distance \div 2 + offset_x,
              h \div 2 - s.height_right \div 2 + offset_y,
              w \div 2 + s.width_right + distance \div 2 + offset_x,
              h \div 2 + s.height_right \div 2 + offset_y>>]

\* get_constraints: (min_x_offset, max_x_offset, min_y_offset, max_y_offset)
get_constraints(cfg) ==
    LET w == cfg.screen.width
        h == cfg.screen.height
        distance == cfg.eye.distance
        tallest == Max(cfg.eye.left.height, cfg.eye.right.height)
    IN  [min_x_offset |-> -(w \div 2 - distance \div 2 - cfg.eye.left.width),
         max_x_offset |-> w \div 2 - distance \div 2 - cfg.eye.right.width,
         min_y_offset |-> -(h \div 2 - tallest \div 2),
         max_y_offset |-> h \div 2 - tallest \div 2]

\* look's choice of the target offsets for a direction
LookTarget(cfg, direction, offset_x, offset_y) ==
    LET c == get_constraints(cfg)
    IN  CASE direction = "L" -> <<c.min_x_offset, offset_y>>
          [] direction = "R" -> <<c.max_x_offset, offset_y>>
          [] direction = "T" -> <<offset_x, c.min_y_offset>>
          [] direction = "B" -> <<offset_x, c.max_y_offset>>
          [] direction = "TL" -> <<c.min_x_offset, c.min_y_offset>>
          [] direction = "TR" -> <<c.max_x_offset, c.min_y_offset>>
          [] direction = "BL" -> <<c.min_x_offset, c.max_y_offset>>
          [] direction = "BR" -> <<c.max_x_offset, c.max_y_offset>>
          [] OTHER -> <<0, 0>>

\* The step without its min/max against the target: it may step past it
StepToward_Overshoot(current, target, step) ==
    IF current < target THEN current + step
    ELSE IF current > target THEN current - step
    ELSE current

\* One step of the look loop along one axis
StepToward(current, target, step) ==
    IF current < target THEN Min(current + step, target)
    ELSE IF current > target THEN Max(current - step, target)
    ELSE current

NoCall == [name |-> "none", direction |-> "C", eye |-> "both"]

\* The locals of draw_eyes when no animation runs
IdleLocals ==
    /\ pc' = "idle"
    /\ call' = NoCall
    /\ movement_speed' = 0
    /\ curious' = FALSE
    /\ target_offset_x' = 0
    /\ target_offset_y' = 0
    /\ blink_height_left' = 0
    /\ blink_height_right' = 0
    /\ blink_direction' = 0
    /\ frame_parity' = 0

\* The globals of eyes.py as the module sets them, with the configuration cfg
EyesStart(cfg) ==
    /\ config = cfg
    /\ current_face = "default"
    /\ current_offset_x = 0
    /\ current_offset_y = 0
    /\ current_curious = FALSE
    /\ current_closed = FALSE
    /\ pc = "idle"
    /\ call = NoCall
    /\ movement_speed = 0
    /\ curious = FALSE
    /\ target_offset_x = 0
    /\ target_offset_y = 0
    /\ blink_height_left = 0
    /\ blink_height_right = 0
    /\ blink_direction = 0
    /\ frame = [by |-> "none", height_left |-> 0, height_right |-> 0,
                left_eye_coords |-> <<0, 0, 0, 0>>, right_eye_coords |-> <<0, 0, 0, 0>>]
    /\ frame_parity = 0

\* draw_eyes(device, config, face=..., curious=..., closed=...): a plain redraw
DrawEyes(face, cur, closed) ==
    /\ pc = "idle"
    /\ UNCHANGED otherThanEyes
    /\ current_face' = IF IsNone(face) THEN current_face ELSE Val(face)
    /\ current_curious' = IF IsNone(cur) THEN current_curious ELSE Val(cur)
    /\ current_closed' = IF IsNone(closed) THEN current_closed ELSE Val(closed)
    /\ frame' = DrawFrame(config, "draw_eyes", current_offset_x, current_offset_y,
                          None, None, current_curious')
    /\ IdleLocals
    /\ UNCHANGED <<config, current_offset_x, current_offset_y>>

\* look(...): the globals it sets, the target, and draw_eyes' first frame
Look(direction, speed, face, cur, closed) ==
    /\ pc = "idle"
    /\ UNCHANGED otherThanEyes
    /\ current_face' = IF IsNone(face) THEN current_face ELSE Val(face)
    /\ current_curious' = IF IsNone(cur) THEN current_curious ELSE Val(cur)
    /\ current_closed' = IF IsNone(closed) THEN current_closed ELSE Val(closed)
    /\ LET t == LookTarget(config, direction, current_offset_x, current_offset_y)
       IN  /\ target_offset_x' = t[1]
           /\ target_offset_y' = t[2]
    /\ frame' = DrawFrame(config, "look", current_offset_x, current_offset_y,
                          None, None, current_curious')
    /\ pc' = "look"
    /\ call' = [name |-> "look", direction |-> direction, eye |-> "both"]
    /\ movement_speed' = LookSpeed(speed)
    /\ curious' = current_curious'
    /\ frame_parity' = 1
    /\ UNCHANGED <<config, current_offset_x, current_offset_y,
                   blink_height_left, blink_height_right, blink_direction>>

\* One iteration of the look loop of draw_eyes
LookStep ==
    /\ pc = "look"
    /\ UNCHANGED otherThanEyes
    /\ current_offset_x # target_offset_x \/ current_offset_y # target_offset_y
    /\ current_offset_x' = StepToward(current_offset_x, target_offset_x, movement_speed)
    /\ current_offset_y' = StepToward(current_offset_y, target_offset_y, movement_speed)
    /\ frame' = DrawFrame(config, "look", current_offset_x', current_offset_y',
                          None, None, curious)
    /\ frame_parity' = 1 - frame_parity
    /\ UNCHANGED <<config, current_face, current_curious, current_closed, pc, call,
                   movement_speed, curious,
                   target_offset_x, target_offset_y,
                   blink_height_left, blink_height_right, blink_direction>>

\* The look loop's exit: draw_eyes and look return
LookReturn ==
    /\ pc = "look"
    /\ UNCHANGED otherThanEyes
    /\ current_offset_x = target_offset_x
    /\ current_offset_y = target_offset_y
    /\ IdleLocals
    /\ UNCHANGED <<config, current_face, current_offset_x, current_offset_y,
                   current_curious, current_closed, frame>>

\* The blink iteration that turns to opening as soon as one eye is closed
BlinkIter_AnyClosed(cfg, eye, step, direction, height_left, height_right) ==
    LET left_orig == cfg.eye.left.height
        right_orig == cfg.eye.right.height
        selL == eye \in {"both", "left"}
        selR == eye \in {"both", "right"}
    IN  IF direction = -1
        THEN LET l == IF selL THEN Max(1, height_left - step) ELSE height_left
                 r == IF selR THEN Max(1, height_right - step) ELSE height_right
                 closedAny == (selL /\ l <= 1) \/ (selR /\ r <= 1)
             IN  [left |-> l, right |-> r,
                  direction |-> IF closedAny THEN 1 ELSE -1, brk |-> FALSE]
        ELSE LET l == IF selL THEN Min(height_left + step, left_orig) ELSE height_left
                 r == IF selR THEN Min(height_right + step, right_orig) ELSE height_right
                 openAll == \/ (selL /\ l >= left_orig) /\ (selR /\ r >= right_orig)
                            \/ eye = "left" /\ l >= left_orig
                            \/ eye = "right" /\ r >= right_orig
             IN  [left |-> l, right |-> r, direction |-> 1, brk |-> openAll]

\* One iteration of the blink loop of draw_eyes, up to its draw: the new
\* heights and direction, and whether the iteration breaks out of the loop.
BlinkIter(cfg, eye, step, direction, height_left, height_right) ==
    LET left_orig == cfg.eye.left.height
        right_orig == cfg.eye.right.height
        selL == eye \in {"both", "left"}
        selR == eye \in {"both", "right"}
    IN  IF direction = -1
        THEN LET l == IF selL THEN Max(1, height_left - step) ELSE height_left
                 r == IF selR THEN Max(1, height_right - step) ELSE height_right
                 closedAll == \/ (selL /\ l <= 1) /\ (selR /\ r <= 1)
                              \/ eye = "left" /\ l <= 1
                              \/ eye = "right" /\ r <= 1
             IN  [left |-> l, right |-> r,
                  direction |-> IF closedAll THEN 1 ELSE -1, brk |-> FALSE]
        ELSE LET l == IF selL THEN Min(height_left + step, left_orig)
                      ELSE height_left
                 r == IF selR THEN Min(height_right + step, right_orig)
                      ELSE height_right
                 openAll == \/ (selL /\ l >= left_orig) /\ (selR /\ r >= right_orig)
                            \/ eye = "left" /\ l >= left_orig
                            \/ eye = "right" /\ r >= right_orig
             IN  [left |-> l, right |-> r, direction |-> 1, brk |-> openAll]

\* blink(...): the globals it sets, draw_eyes' first frame, the loop's start
Blink(eye, speed, face, cur, closed) ==
    /\ pc = "idle"
    /\ UNCHANGED otherThanEyes
    /\ current_closed' = IF IsNone(closed) THEN current_closed ELSE Val(closed)
    /\ current_curious' = IF IsNone(cur) THEN current_curious ELSE Val(cur)
    /\ frame' = DrawFrame(config, "blink", current_offset_x, current_offset_y,
                          None, None, current_curious')
    /\ pc' = "blink"
    /\ call' = [name |-> "blink", direction |-> "C", eye |-> eye]
    /\ movement_speed' = BlinkSpeed(speed)
    /\ curious' = current_curious'
    /\ blink_height_left' = config.eye.left.height
    /\ blink_height_right' = config.eye.right.height
    /\ blink_direction' = -1
    /\ frame_parity' = 1
    /\ UNCHANGED <<config, current_face, current_offset_x, current_offset_y,
                   target_offset_x, target_offset_y>>

\* An iteration of the blink loop that draws its frame and goes on
BlinkStep ==
    /\ pc = "blink"
    /\ UNCHANGED otherThanEyes
    /\ LET it == BlinkIter(config, call.eye, movement_speed, blink_direction,
                           blink_height_left, blink_height_right)
       IN  /\ ~it.brk
           /\ blink_height_left' = it.left
           /\ blink_height_right' = it.right
           /\ blink_direction' = it.direction
           /\ frame' = DrawFrame(config, "blink", current_offset_x, current_offset_y,
                                 IF call.eye \in {"both", "left"} THEN Some(it.left) ELSE None,
                                 IF call.eye \in {"both", "right"} THEN Some(it.right) ELSE None,
                                 curious)
    /\ frame_parity' = 1 - frame_parity
    /\ UNCHANGED <<config, current_face, current_offset_x, current_offset_y, current_curious,
                   current_closed, pc, call, movement_speed, curious,
                   target_offset_x, target_offset_y>>

\* The iteration that breaks, and the final frame at the original heights
BlinkFinish ==
    /\ pc = "blink"
    /\ UNCHANGED otherThanEyes
    /\ BlinkIter(config, call.eye, movement_speed, blink_direction,
                 blink_height_left, blink_height_right).brk
    /\ frame' = DrawFrame(config, "blink", current_offset_x, current_offset_y,
                          Some(config.eye.left.height), Some(config.eye.right.height),
                          curious)
    /\ IdleLocals
    /\ UNCHANGED <<config, current_face, current_offset_x, current_offset_y,
                   current_curious, current_closed>>

\* The close loop's break test
CloseDone(eye, height_left, height_right) ==
    /\ height_left <= 1 /\ eye \in {"both", "left"}
    /\ height_right <= 1 /\ eye \in {"both", "right"}

\* The open loop's break test
OpenDone(cfg, eye, height_left, height_right) ==
    /\ height_left >= cfg.eye.left.height /\ eye \in {"both", "left"}
    /\ height_right >= cfg.eye.right.height /\ eye \in {"both", "right"}

\* eye_close(...): the globals it sets, draw_eyes' first frame, the early
\* return when the eyes are closed already, the loop's start
EyeClose(eye, speed, face, cur, closed) ==
    /\ pc = "idle"
    /\ UNCHANGED otherThanEyes
    /\ current_closed' = IF IsNone(closed) THEN current_closed ELSE Val(closed)
    /\ current_curious' = IF IsNone(cur) THEN current_curious ELSE Val(cur)
    /\ frame' = DrawFrame(config, "close", current_offset_x, current_offset_y,
                          None, None, current_curious')
    /\ IF current_closed'
       THEN IdleLocals
       ELSE /\ pc' = "close"
            /\ call' = [name |-> "close", direction |-> "C", eye |-> eye]
            /\ movement_speed' = BlinkSpeed(speed)
            /\ curious' = current_curious'
            /\ blink_height_left' = config.eye.left.height
            /\ blink_height_right' = config.eye.right.height
            /\ frame_parity' = 1
            /\ UNCHANGED <<target_offset_x, target_offset_y, blink_direction>>
    /\ UNCHANGED <<config, current_face, current_offset_x, current_offset_y>>

\* One iteration of the close loop: lower, draw, test for the break
CloseStep ==
    /\ pc = "close"
    /\ UNCHANGED otherThanEyes
    /\ LET l == IF call.eye \in {"both", "left"}
                THEN Max(1, blink_height_left - movement_speed)
                ELSE blink_height_left
           r == IF call.eye \in {"both", "right"}
                THEN Max(1, blink_height_right - movement_speed)
                ELSE blink_height_right
       IN  /\ frame' = DrawFrame(config, "close", current_offset_x, current_offset_y,
                                 Some(l), Some(r), curious)
           /\ IF CloseDone(call.eye, l, r)
              THEN /\ current_closed' = TRUE
                   /\ IdleLocals
              ELSE /\ blink_height_left' = l
                   /\ blink_height_right' = r
                   /\ frame_parity' = 1 - frame_parity
                   /\ UNCHANGED <<current_closed, pc, call, movement_speed, curious,
                                  target_offset_x, target_offset_y, blink_direction>>
    /\ UNCHANGED <<config, current_face, current_offset_x, current_offset_y, current_curious>>

\* eye_open(...): the globals it sets, draw_eyes' first frame, the early
\* return when the eyes are open already, the loop's start from height 0
EyeOpen(eye, speed, face, cur, closed) ==
    /\ pc = "idle"
    /\ UNCHANGED otherThanEyes
    /\ current_closed' = IF IsNone(closed) THEN current_closed ELSE Val(closed)
    /\ current_curious' = IF IsNone(cur) THEN current_curious ELSE Val(cur)
    /\ frame' = DrawFrame(config, "open", current_offset_x, current_offset_y,
                          None, None, current_curious')
    /\ IF ~current_closed'
       THEN IdleLocals
       ELSE /\ pc' = "open"
            /\ call' = [name |-> "open", direction |-> "C", eye |-> eye]
            /\ movement_speed' = BlinkSpeed(speed)
            /\ curious' = current_curious'
            /\ blink_height_left' = 0
            /\ blink_height_right' = 0
            /\ frame_parity' = 1
            /\ UNCHANGED <<target_offset_x, target_offset_y, blink_direction>>
    /\ UNCHANGED <<config, current_face, current_offset_x, current_offset_y>>

\* One iteration of the open loop: raise, draw, test for the break
OpenStep ==
    /\ pc = "open"
    /\ UNCHANGED otherThanEyes
    /\ LET l == IF call.eye \in {"both", "left"}
                THEN Min(blink_height_left + movement_speed, config.eye.left.height)
                ELSE blink_height_left
           r == IF call.eye \in {"both", "right"}
                THEN Min(blink_height_right + movement_speed, config.eye.right.height)
                ELSE blink_height_right
       IN  /\ frame' = DrawFrame(config, "open", current_offset_x, current_offset_y,
                                 Some(l), Some(r), current_curious)
           /\ IF OpenDone(config, call.eye, l, r)
              THEN /\ current_closed' = FALSE
                   /\ IdleLocals
              ELSE /\ blink_height_left' = l
                   /\ blink_height_right' = r
                   /\ frame_parity' = 1 - frame_parity
                   /\ UNCHANGED <<current_closed, pc, call, movement_speed, curious,
                                  target_offset_x, target_offset_y, blink_direction>>
    /\ UNCHANGED <<config, current_face, current_offset_x, current_offset_y, current_curious>>

--------------------------------------------------------------------------
(* src/gpiocontrol.py and src/gpiocontrol-editing.py                       *)

\* The most GPIO buttons a configuration lists
MaxButtons == 2

\* The encoder steps the model lets the count reach, either way
MaxSteps == 2

GpioFiles == {"gpiocontrol", "editing"}

GpioPins == 1..MaxButtons

\* The pin of the encoder's push button
EncoderButtonPin == MaxButtons + 1

Pins == GpioPins \cup {EncoderButtonPin}

\* The shell command a configuration gives an input; every one is different
Cmd(kind, pin) == <<kind, pin>>

\* options['gpios']: in file order, GPIO i with a short_press and a long_press (or None)
GpioOptions ==
    UNION {{g \in [1..n -> [gpio : GpioPins,
                            short_press : {None} \cup {Cmd("short", q) : q \in GpioPins},
                            long_press : {None} \cup {Cmd("long", q) : q \in GpioPins}]] :
                \A i \in 1..n : /\ g[i].gpio = i
                                /\ g[i].short_press \in {None, Cmd("short", i)}
                                /\ g[i].long_press \in {None, Cmd("long", i)}} :
           n \in 1..MaxButtons}

\* options['encoder']: absent, or pins a and b with the two rotation commands,
\* with or without a push button and its commands
NoEncoder ==
    [present |-> FALSE, button |-> FALSE, up_command |-> None, down_command |-> None,
     short_press |-> None, long_press |-> None]

EncoderOptions ==
    {NoEncoder}
    \cup {[present |-> TRUE, button |-> FALSE, up_command |-> Cmd("up", EncoderButtonPin),
           down_command |-> Cmd("down", EncoderButtonPin),
           short_press |-> None, long_press |-> None]}
    \cup {[present |-> TRUE, button |-> TRUE, up_command |-> Cmd("up", EncoderButtonPin),
           down_command |-> Cmd("down", EncoderButtonPin),
           short_press |-> sp, long_press |-> lp] :
            sp \in {None, Cmd("short", EncoderButtonPin)},
            lp \in {None, Cmd("long", EncoderButtonPin)}}

\* actions.get('short_press') / actions.get('long_press') of the GPIO's section
ConfiguredFor(opts, pin, key) ==
    IF pin \in DOMAIN opts.gpios THEN opts.gpios[pin][key]
    ELSE IF pin = EncoderButtonPin /\ opts.encoder.button THEN opts.encoder[key]
    ELSE None

\* The value on_loaded's local `key` holds when on_loaded returns: the last
\* GPIO's, or the encoder button's when the encoder section has one.
FinalLocal(opts, key) ==
    IF opts.encoder.present /\ opts.encoder.button THEN opts.encoder[key]
    ELSE opts.gpios[Len(opts.gpios)][key]

\* runcommand: the commands it runs. gpiocontrol.py hands None to Popen too,
\* which raises before anything runs.
runcommand(command) == IF command = None THEN <<>> ELSE <<command>>

NoEvent == [kind |-> "none", pin |-> 0]

NoButton == [pin |-> 0, held |-> FALSE]

\* The plugin object after __init__, running file f with options opts
GpioStart(f, opts) ==
    /\ gpio_file = f
    /\ options = opts
    /\ loaded = FALSE
    /\ short_press_command = None
    /\ long_press_command = None
    /\ when_pressed = [p \in Pins |-> FALSE]
    /\ when_held = [p \in Pins |-> None]
    /\ when_released = [p \in Pins |-> FALSE]
    /\ button_hold_flags = [p \in Pins |-> "unset"]
    /\ down = NoButton
    /\ steps = 0
    /\ previous_step = 0
    /\ event = NoEvent
    /\ ran = <<>>
    /\ last_ran = <<>>
    /\ hold_thread = 0

GpioOff == GpioStart("gpiocontrol", [gpios |-> <<>>, encoder |-> NoEncoder])

\* on_loaded of gpiocontrol.py: a Button per GPIO, whose when_pressed and
\* when_held lambdas read on_loaded's locals when they fire
OnLoaded ==
    /\ gpio_file = "gpiocontrol"
    /\ ~loaded
    /\ UNCHANGED otherThanGpio
    /\ loaded' = TRUE
    /\ short_press_command' = FinalLocal(options, "short_press")
    /\ long_press_command' = FinalLocal(options, "long_press")
    /\ when_pressed' = [p \in Pins |-> ConfiguredFor(options, p, "short_press") # None]
    /\ when_held' = [p \in Pins |->
                        IF ConfiguredFor(options, p, "long_press") # None
                        THEN Some("cell") ELSE None]
    /\ UNCHANGED <<hold_thread, gpio_file, options, when_released, button_hold_flags, down, steps,
                   previous_step, event, ran, last_ran>>

\* on_loaded of gpiocontrol-editing.py: when_pressed and when_released per
\* button that has a command; when_held is set later, by on_button_pressed
OnLoadedEditing ==
    /\ gpio_file = "editing"
    /\ ~loaded
    /\ UNCHANGED otherThanGpio
    /\ loaded' = TRUE
    /\ short_press_command' = FinalLocal(options, "short_press")
    /\ long_press_command' = FinalLocal(options, "long_press")
    /\ when_pressed' = [p \in Pins |-> \/ ConfiguredFor(options, p, "short_press") # None
                                       \/ ConfiguredFor(options, p, "long_press") # None]
    /\ when_released' = when_pressed'
    /\ button_hold_flags' = [p \in Pins |-> IF p \in DOMAIN options.gpios
                                            THEN "False" ELSE "unset"]
    /\ UNCHANGED <<hold_thread, gpio_file, options, when_held, down, steps, previous_step, event,
                   ran, last_ran>>

\* The buttons gpiozero watches: the configured GPIOs and the encoder's button
Watched(pin) ==
    \/ pin \in DOMAIN options.gpios
    \/ pin = EncoderButtonPin /\ options.encoder.present /\ options.encoder.button

\* A button goes down. gpiocontrol.py: when_pressed runs the command at once.
\* editing: on_button_pressed clears the hold flag and, with a long press
\* command, sets the Button's when_held (self.buttons holds only the GPIOs:
\* for the encoder's button the lookup raises).
Press(pin) ==
    /\ loaded
    /\ down = NoButton
    /\ hold_thread = 0
    /\ Watched(pin)
    /\ UNCHANGED otherThanGpio
    /\ down' = [pin |-> pin, held |-> FALSE]
    /\ event' = [kind |-> "press", pin |-> pin]
    /\ IF gpio_file = "gpiocontrol"
       THEN /\ last_ran' = IF when_pressed[pin] THEN runcommand(short_press_command)
                           ELSE <<>>
            /\ UNCHANGED <<when_held, button_hold_flags>>
       ELSE /\ last_ran' = <<>>
            /\ button_hold_flags' = IF when_pressed[pin]
                                    THEN [button_hold_flags EXCEPT ![pin] = "False"]
                                    ELSE button_hold_flags
            /\ when_held' = IF /\ when_pressed[pin]
                               /\ long_press_command # None
                               /\ pin \in DOMAIN options.gpios
                            THEN [when_held EXCEPT ![pin] = Some(long_press_command)]
                            ELSE when_held
    /\ ran' = last_ran'
    /\ UNCHANGED <<hold_thread, gpio_file, options, loaded, short_press_command, long_press_command,
                   when_pressed, when_released, steps, previous_step>>

\* The button has been down for hold_time: when_held fires. gpiocontrol.py
\* runs the command; editing's on_button_held sets the hold flag first.
Hold(pin) ==
    /\ loaded
    /\ down = [pin |-> pin, held |-> FALSE]
    /\ UNCHANGED otherThanGpio
    /\ down' = [pin |-> pin, held |-> TRUE]
    /\ event' = [kind |-> "held", pin |-> pin]
    /\ last_ran' = IF IsNone(when_held[pin]) THEN <<>>
                   ELSE IF Val(when_held[pin]) = "cell" THEN runcommand(long_press_command)
                   ELSE runcommand(Val(when_held[pin]))
    /\ ran' = ran \o last_ran'
    /\ button_hold_flags' = IF gpio_file = "editing" /\ ~IsNone(when_held[pin])
                            THEN [button_hold_flags EXCEPT ![pin] = "True"]
                            ELSE button_hold_flags
    /\ UNCHANGED <<hold_thread, gpio_file, options, loaded, short_press_command, long_press_command,
                   when_pressed, when_held, when_released, steps, previous_step>>

\* gpiozero's hold thread finds the button of gpiocontrol-editing.py down
\* after hold_time and calls when_held; the body of on_button_held has not
\* run yet, and the release callback runs on another thread
WhenHeldFires(pin) ==
    /\ loaded
    /\ gpio_file = "editing"
    /\ down = [pin |-> pin, held |-> FALSE]
    /\ hold_thread = 0
    /\ ~IsNone(when_held[pin])
    /\ UNCHANGED otherThanGpio
    /\ down' = [pin |-> pin, held |-> TRUE]
    /\ hold_thread' = pin
    /\ event' = [kind |-> "held", pin |-> pin]
    /\ last_ran' = <<>>
    /\ UNCHANGED <<gpio_file, options, loaded, short_press_command, long_press_command,
                   when_pressed, when_held, when_released, button_hold_flags, steps,
                   previous_step, ran>>

\* on_button_held in the hold thread: the hold flag is set, then the long
\* press command runs
on_button_held(pin) ==
    /\ hold_thread = pin
    /\ pin # 0
    /\ UNCHANGED otherThanGpio
    /\ hold_thread' = 0
    /\ button_hold_flags' = [button_hold_flags EXCEPT ![pin] = "True"]
    /\ last_ran' = runcommand(Val(when_held[pin]))
    /\ ran' = ran \o last_ran'
    /\ UNCHANGED <<gpio_file, options, loaded, short_press_command, long_press_command,
                   when_pressed, when_held, when_released, down, steps, previous_step,
                   event>>

\* The button goes up. gpiocontrol.py sets no when_released. editing's
\* on_button_released runs the short press command it looks up in
\* options['gpios'] unless the hold flag is set.
Release(pin) ==
    /\ loaded
    /\ down.pin = pin
    /\ Watched(pin)
    /\ UNCHANGED otherThanGpio
    /\ down' = NoButton
    /\ event' = [kind |-> IF down.held THEN "release_held" ELSE "release", pin |-> pin]
    /\ last_ran' = IF when_released[pin] /\ button_hold_flags[pin] = "False"
                   THEN IF pin \in DOMAIN options.gpios
                        THEN IF options.gpios[pin].short_press # None
                             THEN runcommand(options.gpios[pin].short_press) ELSE <<>>
                        ELSE <<>>
                   ELSE <<>>
    /\ ran' = ran \o last_ran'
    /\ UNCHANGED <<hold_thread, gpio_file, options, loaded, short_press_command, long_press_command,
                   when_pressed, when_held, when_released, button_hold_flags, steps,
                   previous_step>>

\* on_encoder_rotate of gpiocontrol.py: the sign of the accumulated count
on_encoder_rotate(count) ==
    IF count > 0 THEN runcommand(options.encoder.up_command)
    ELSE IF count < 0 THEN runcommand(options.encoder.down_command)
    ELSE <<>>

\* on_encoder_rotate of gpiocontrol-editing.py: the count against the last one
on_encoder_rotate_editing(count, previous) ==
    IF count > previous THEN runcommand(options.encoder.up_command)
    ELSE IF count < previous THEN runcommand(options.encoder.down_command)
    ELSE <<>>

\* The encoder turns one step: delta 1 clockwise, -1 counterclockwise
Rotate(delta) ==
    /\ loaded
    /\ options.encoder.present
    /\ down = NoButton
    /\ Abs(steps + delta) <= MaxSteps
    /\ UNCHANGED otherThanGpio
    /\ steps' = steps + delta
    /\ event' = [kind |-> IF delta > 0 THEN "cw" ELSE "ccw", pin |-> 0]
    /\ last_ran' = IF gpio_file = "gpiocontrol" THEN on_encoder_rotate(steps')
                   ELSE on_encoder_rotate_editing(steps', previous_step)
    /\ ran' = last_ran'
    /\ previous_step' = IF gpio_file = "editing" THEN steps' ELSE previous_step
    /\ UNCHANGED <<hold_thread, gpio_file, options, loaded, short_press_command, long_press_command,
                   when_pressed, when_held, when_released, button_hold_flags, down>>

\* RotaryEncoder(..., max_steps=1000, ..., wrap=True) of gpiocontrol-editing.py
max_steps == 1000

\* gpiozero's step count after one step with wrap=True: past max_steps it
\* starts again at -max_steps, and below -max_steps at max_steps
WrapSteps(count, delta) ==
    IF delta > 0
    THEN IF count >= max_steps THEN -max_steps ELSE count + 1
    ELSE IF count <= -max_steps THEN max_steps ELSE count - 1

\* The encoder of gpiocontrol-editing.py turns one step (delta 1 clockwise,
\* -1 counterclockwise): gpiozero changes steps and calls on_encoder_rotate
RotateEditing(delta) ==
    /\ loaded
    /\ gpio_file = "editing"
    /\ options.encoder.present
    /\ down = NoButton
    /\ UNCHANGED otherThanGpio
    /\ steps' = WrapSteps(steps, delta)
    /\ event' = [kind |-> IF delta > 0 THEN "cw" ELSE "ccw", pin |-> 0]
    /\ last_ran' = on_encoder_rotate_editing(steps', previous_step)
    /\ ran' = last_ran'
    /\ previous_step' = steps'
    /\ UNCHANGED <<hold_thread, gpio_file, options, loaded, short_press_command,
                   long_press_command, when_pressed, when_held, when_released,
                   button_hold_flags, down>>

--------------------------------------------------------------------------
(* src/gfxhatcontrol.py                                                    *)

\* The touch buttons a configuration names (of touch.NAME_MAPPING's six)
MaxTouchButtons == 2

\* The clock ticks in a second
TicksPerSecond == 2

\* The ticks the clock runs on after the plugin starts
MaxTouchTicks == 3

TouchButtons == 1..MaxTouchButtons

\* time.time() when the plugin starts: some time after the epoch's first second
TouchStartTime == TicksPerSecond

\* A command configured as the empty string
EmptyCommand == <<"">>

NoSection == [configured |-> FALSE, short_press |-> None, long_press |-> None]

\* options['buttons'][name] for button b: absent, or a section whose short_press
\* and long_press are absent (None), empty, or a command
TouchSections(b) ==
    {NoSection}
    \cup {[configured |-> TRUE, short_press |-> sp, long_press |-> lp] :
            sp \in {None, EmptyCommand, Cmd("short", b)},
            lp \in {None, Cmd("long", b)}}

TouchOptions ==
    {o \in [TouchButtons -> UNION {TouchSections(b) : b \in TouchButtons}] :
        \A b \in TouchButtons : o[b] \in TouchSections(b)}

\* runcommand of gfxhatcontrol.py: `if command:` skips None and the empty string
touch_runcommand(command) ==
    IF command = None \/ command = EmptyCommand THEN <<>> ELSE <<command>>

\* The command on_touch_event picks on a release, by the hold time in ticks
ReleaseCommand_Over(hold_time, short, long) ==
    IF hold_time > TicksPerSecond THEN long ELSE short

ReleaseCommand(hold_time, short, long) ==
    IF hold_time >= TicksPerSecond THEN long ELSE short

NoTouch == [kind |-> "none", button |-> 0, at |-> 0]

\* The plugin object after __init__, with options opts
GfxStart(opts) ==
    /\ touch_options = opts
    /\ touch_loaded = FALSE
    /\ touch_handlers = [b \in TouchButtons |-> None]
    /\ button_hold_times = [b \in TouchButtons |-> None]
    /\ touch_now = TouchStartTime
    /\ touch_event = NoTouch
    /\ last_press = [b \in TouchButtons |-> None]
    /\ attempted = <<>>
    /\ executed = <<>>

GfxOff == GfxStart([b \in TouchButtons |-> NoSection])

\* on_loaded: register_touch_handler for every configured button; each handler
\* keeps its own short_press_command and long_press_command. (The LEDs that
\* touch.set_led drives here and in on_touch_event are outputs the plugin
\* never reads.)
GfxOnLoaded ==
    /\ ~touch_loaded
    /\ UNCHANGED otherThanGfx
    /\ touch_loaded' = TRUE
    /\ touch_handlers' = [b \in TouchButtons |->
                            IF touch_options[b].configured
                            THEN Some([short_press_command |-> touch_options[b].short_press,
                                       long_press_command |-> touch_options[b].long_press])
                            ELSE None]
    /\ UNCHANGED <<touch_options, button_hold_times, touch_now, touch_event, last_press,
                   attempted, executed>>

\* The touch controller reports an event on a button that has a handler:
\* on_touch_event runs. The events arrive in any order.
Touch(b, kind) ==
    /\ touch_loaded
    /\ ~IsNone(touch_handlers[b])
    /\ UNCHANGED otherThanGfx
    /\ touch_event' = [kind |-> kind, button |-> b, at |-> touch_now]
    /\ last_press' = IF kind = "press" THEN [last_press EXCEPT ![b] = Some(touch_now)]
                     ELSE last_press
    /\ LET h == Val(touch_handlers[b])
           since == IF IsNone(button_hold_times[b]) THEN 0 ELSE Val(button_hold_times[b])
           hold_time == touch_now - since
           command == ReleaseCommand(hold_time, h.short_press_command, h.long_press_command)
       IN  CASE kind = "press" ->
                    /\ button_hold_times' = [button_hold_times EXCEPT ![b] = Some(touch_now)]
                    /\ attempted' = <<>>
                    /\ executed' = <<>>
             [] kind = "release" ->
                    /\ attempted' = <<command>>
                    /\ executed' = touch_runcommand(command)
                    /\ UNCHANGED button_hold_times
             [] OTHER ->
                    /\ attempted' = <<>>
                    /\ executed' = <<>>
                    /\ UNCHANGED button_hold_times
    /\ UNCHANGED <<touch_options, touch_loaded, touch_handlers, touch_now>>

\* The clock moves on by one tick
TouchTick ==
    /\ touch_now < TouchStartTime + MaxTouchTicks
    /\ UNCHANGED otherThanGfx
    /\ touch_now' = touch_now + 1
    /\ UNCHANGED <<touch_options, touch_loaded, touch_handlers, button_hold_times,
                   touch_event, last_press, attempted, executed>>

--------------------------------------------------------------------------
(* src/OLED-Stats.py, src/OLED-Stats-subprocess.py, src/OLED-Statsv2.py    *)

\* The seconds the clock runs on after the plugin is constructed
MaxOledTime == 20

\* The most addresses `hostname -I` lists
MaxIps == 2

\* self.screen_update_interval
screen_update_interval == 5

\* The stat screens on_ui_update cycles through
ScreenCount == 4

\* The seconds OLED-Stats-subprocess.py shows one address for
IpCycleSeconds == 3

OledFiles == {"OLED-Stats", "OLED-Stats-subprocess", "OLED-Statsv2"}

\* The cached attributes, in the order update_stats assigns them
StatOrder == <<"CPU", "MemUsage", "Temperature", "Disk", "DiskGB", "ip_addresses",
               "date_str", "time_str">>

StatNames == {StatOrder[i] : i \in DOMAIN StatOrder}

\* After how many of its assignments update_stats raises (all of them: it succeeds)
FailPoints == 0..Len(StatOrder)

\* The default "N/A" of __init__
Default == <<"N/A", 0>>

\* An attribute __init__ never assigns: reading it raises AttributeError
Unset == <<"unset", 0>>

\* A value read from the system: by the f-th update_stats, or at time f
Read(f) == <<"read", f>>

\* The list `hostname -I` gives, n addresses long
IpList(n) == [i \in 1..n |-> <<"ip", i>>]

\* The attributes as __init__ leaves them before its update_stats call
InitialStats ==
    [a \in StatNames |->
        IF a \in {"CPU", "MemUsage", "Disk", "Temperature"} THEN Default
        ELSE IF a = "ip_addresses" THEN <<Default>>
        ELSE Unset]

\* update_stats, raising (and caught) after k assignments: the attributes after it
update_stats(st, k, n, f) ==
    [a \in StatNames |->
        LET i == CHOOSE j \in DOMAIN StatOrder : StatOrder[j] = a
        IN  IF i > k THEN st[a]
            ELSE IF a = "ip_addresses" THEN IpList(n)
            ELSE Read(f)]

\* What a display shows: by kind, with the three things written on it
Shown(kind, a, b, c) == [kind |-> kind, a |-> a, b |-> b, c |-> c]

\* After Init() and Clear()
Cleared == Shown("cleared", Default, Default, Default)

\* After the black rectangle is displayed
Blank == Shown("blank", Default, Default, Default)

\* The first display of OLED-Stats.py: the stat of the screen (lines 169-181)
StatScreen(index, st) ==
    CASE index = 0 -> Shown("CPU", st["CPU"], Default, Default)
      [] index = 1 -> Shown("TEMP", st["Temperature"], Default, Default)
      [] index = 2 -> Shown("RAM", st["MemUsage"], Default, Default)
      [] OTHER -> Shown("HDD", st["Disk"], st["DiskGB"], Default)

\* The attributes the render of OLED-Stats.py reads that do not exist
RenderRaises(index, st) ==
    \/ index = ScreenCount - 1 /\ st["DiskGB"] = Unset
    \/ st["date_str"] = Unset
    \/ st["time_str"] = Unset

HookCall(name, writes, raised) == [name |-> name, writes |-> writes, raised |-> raised]

\* The guard every on_ui_update starts with: `if not self.active: return`
Unloaded_Never == FALSE

Unloaded == ~active

\* The plugin object of file f after __init__, whose update_stats call
\* raised after k assignments, with n addresses listed
OledStart(f, k, n) ==
    /\ oled_file = f
    /\ active = TRUE
    /\ screen_index = 0
    /\ ip_index = 0
    /\ last_update = 0
    /\ ip_last_update = 0
    /\ stats = IF f = "OLED-Stats" THEN update_stats(InitialStats, k, n, 0)
               ELSE IF f = "OLED-Stats-subprocess"
                    THEN [InitialStats EXCEPT !["ip_addresses"] = IpList(n)]
               ELSE InitialStats
    /\ fetches = 1
    /\ oled_now = 0
    /\ oled1 = Cleared
    /\ oled2 = Cleared
    /\ oled_call = HookCall("__init__", <<>>, FALSE)

OledOff == OledStart("OLED-Statsv2", 0, 1)

\* on_ui_update of OLED-Stats.py; its update_stats call raises after k
\* assignments and `hostname -I` lists n addresses
OnUiUpdate(k, n) ==
    /\ oled_file = "OLED-Stats"
    /\ UNCHANGED otherThanOled
    /\ IF Unloaded
       THEN /\ oled_call' = HookCall("on_ui_update", <<>>, FALSE)
            /\ UNCHANGED <<screen_index, ip_index, last_update, stats, fetches, oled1, oled2>>
       ELSE IF oled_now - last_update >= screen_update_interval
       THEN /\ stats' = update_stats(stats, k, n, fetches)
            /\ fetches' = fetches + 1
            /\ screen_index' = (screen_index + 1) % ScreenCount
            /\ ip_index' = (ip_index + 1) % Len(stats'["ip_addresses"])
            /\ last_update' = oled_now
            /\ IF RenderRaises(screen_index', stats')
               THEN /\ oled_call' = HookCall("on_ui_update", <<>>, TRUE)
                    /\ UNCHANGED <<oled1, oled2>>
               ELSE /\ oled1' = StatScreen(screen_index', stats')
                    /\ oled2' = Shown("clock", stats'["date_str"], stats'["time_str"],
                                      stats'["ip_addresses"][ip_index' + 1])
                    /\ oled_call' = HookCall("on_ui_update", <<1, 2>>, FALSE)
       ELSE /\ oled_call' = HookCall("on_ui_update", <<>>, FALSE)
            /\ UNCHANGED <<screen_index, ip_index, last_update, stats, fetches, oled1, oled2>>
    /\ UNCHANGED <<oled_file, active, ip_last_update, oled_now>>

\* on_ui_update of OLED-Stats-subprocess.py; ok: the check_output calls succeed
OnUiUpdateSubprocess(ok) ==
    /\ oled_file = "OLED-Stats-subprocess"
    /\ UNCHANGED otherThanOled
    /\ IF Unloaded
       THEN /\ oled_call' = HookCall("on_ui_update", <<>>, FALSE)
            /\ UNCHANGED <<ip_index, ip_last_update, oled1, oled2>>
       ELSE IF ~ok
       THEN /\ oled_call' = HookCall("on_ui_update", <<>>, TRUE)
            /\ UNCHANGED <<ip_index, ip_last_update, oled1, oled2>>
       ELSE /\ IF oled_now - ip_last_update >= IpCycleSeconds
               THEN /\ ip_index' = (ip_index + 1) % Len(stats["ip_addresses"])
                    /\ ip_last_update' = oled_now
               ELSE UNCHANGED <<ip_index, ip_last_update>>
            /\ oled1' = Shown("all", Read(oled_now), stats["ip_addresses"][ip_index' + 1],
                              Default)
            /\ oled2' = Shown("clock", Read(oled_now), Read(oled_now), Default)
            /\ oled_call' = HookCall("on_ui_update", <<1, 2>>, FALSE)
    /\ UNCHANGED <<oled_file, active, screen_index, last_update, stats, fetches, oled_now>>

\* on_ui_update of OLED-Statsv2.py: str(CPU, 'utf-8') on a str raises TypeError
\* before anything is displayed
OnUiUpdateV2 ==
    /\ oled_file = "OLED-Statsv2"
    /\ UNCHANGED otherThanOled
    /\ oled_call' = IF Unloaded THEN HookCall("on_ui_update", <<>>, FALSE)
                    ELSE HookCall("on_ui_update", <<>>, TRUE)
    /\ UNCHANGED <<oled_file, active, screen_index, ip_index, last_update, ip_last_update,
                   stats, fetches, oled_now, oled1, oled2>>

\* on_unload: the flag, then both displays blanked (OLED-Statsv2.py: Clear())
OnUnload ==
    /\ active
    /\ UNCHANGED otherThanOled
    /\ active' = FALSE
    /\ oled1' = IF oled_file = "OLED-Statsv2" THEN Cleared ELSE Blank
    /\ oled2' = oled1'
    /\ oled_call' = HookCall("on_unload", <<1, 2>>, FALSE)
    /\ UNCHANGED <<oled_file, screen_index, ip_index, last_update, ip_last_update, stats,
                   fetches, oled_now>>

\* A second passes
OledTick ==
    /\ oled_now < MaxOledTime
    /\ UNCHANGED otherThanOled
    /\ oled_now' = oled_now + 1
    /\ UNCHANGED <<oled_file, active, screen_index, ip_index, last_update, ip_last_update,
                   stats, fetches, oled1, oled2, oled_call>>

--------------------------------------------------------------------------
(* src/eye-dev/eyes-pantilt.py: the eye renderer that also drives the      *)
(* pan/tilt servos. Its globals have the names of the globals of eyes.py,  *)
(* so they carry the prefix pt_ here.                                      *)

\* DEFAULT_SCREEN_CONFIG of eyes-pantilt.py: the display is 128 pixels high
PanTiltScreenHeight == 128

\* The eye heights a configuration file may set: the default, and lower by
\* steps of six pixels
MaxLowerings == 1

PanTiltEyeHeights == {EyeHeight - 6 * k : k \in 0..MaxLowerings}

PanTiltConfigs ==
    {[screen |-> [width |-> ScreenWidth, height |-> PanTiltScreenHeight],
      eye |-> [distance |-> EyeDistance,
               left |-> [width |-> EyeWidth, height |-> hl],
               right |-> [width |-> EyeWidth, height |-> hr]]] :
        hl \in PanTiltEyeHeights, hr \in PanTiltEyeHeights}

PanTiltDefaultConfig ==
    [screen |-> [width |-> ScreenWidth, height |-> PanTiltScreenHeight],
     eye |-> [distance |-> EyeDistance,
              left |-> [width |-> EyeWidth, height |-> EyeHeight],
              right |-> [width |-> EyeWidth, height |-> EyeHeight]]]

\* The faces a caller asks for: the three draw_eyes knows, "default", and a
\* name it does not know
PanTiltFaces == {"default", "happy", "angry", "tired", "sleepy"}

\* The values of the global current_closed: False at import, None after a
\* full opening, or the name of the closed eye(s)
ClosedValues == {"False", "None", "left", "right", "both"}

\* The closed argument a caller passes: none, or "both" as wakeup does
ClosedArgs == {None, Some("both")}

\* The eyelid keys of target_eyelid_heights and current_eyelid_positions
EyelidKeys == {"top_inner_left", "top_outer_left", "bottom_left",
               "top_inner_right", "top_outer_right", "bottom_right"}

NoEyelids == [key \in EyelidKeys |-> 0]

\* draw_eyes' target_eyelid_heights for the new face
target_eyelid_heights(cfg, face) ==
    LET hl == cfg.eye.left.height \div 2
        hr == cfg.eye.right.height \div 2
    IN  CASE face = "happy" ->
                [NoEyelids EXCEPT !["bottom_left"] = hl, !["bottom_right"] = hr]
          [] face = "angry" ->
                [NoEyelids EXCEPT !["top_inner_left"] = hl, !["top_inner_right"] = hr]
          [] face = "tired" ->
                [NoEyelids EXCEPT !["top_outer_left"] = hl, !["top_outer_right"] = hr]
          [] OTHER -> NoEyelids

\* adjustment_speed = 2: pixels per frame of the eyelid adjustment
adjustment_speed == 2

\* One pass of the for loop over current_eyelid_positions
AdjustEyelids(positions, target) ==
    [key \in EyelidKeys |->
        IF positions[key] < target[key]
        THEN Min(positions[key] + adjustment_speed, target[key])
        ELSE IF positions[key] > target[key]
        THEN Max(positions[key] - adjustment_speed, target[key])
        ELSE positions[key]]

\* The eye heights draw_eyes renders: the blink heights when either is
\* given, else the heights the closed state asks for
RenderHeights(cfg, bh_left, bh_right, closed) ==
    IF ~IsNone(bh_left) \/ ~IsNone(bh_right)
    THEN [left |-> IF IsNone(bh_left) THEN cfg.eye.left.height ELSE Val(bh_left),
          right |-> IF IsNone(bh_right) THEN cfg.eye.right.height ELSE Val(bh_right)]
    ELSE CASE closed = "both" -> [left |-> 1, right |-> 1]
           [] closed = "left" -> [left |-> 1, right |-> cfg.eye.right.height]
           [] closed = "right" -> [left |-> cfg.eye.left.height, right |-> 1]
           [] OTHER -> [left |-> cfg.eye.left.height, right |-> cfg.eye.right.height]

\* The frame draw_eyes hands to device.display: the face whose eyelids it
\* draws, the eye heights asked for before the curious scaling and the
\* clamp to two pixels, the offsets, and the command that drew it
PanTiltFrame(cfg, by, face, offset_x, offset_y, bh_left, bh_right, closed) ==
    LET h == RenderHeights(cfg, bh_left, bh_right, closed)
    IN  [by |-> by, face |-> face, height_left |-> h.left, height_right |-> h.right,
         offset_x |-> offset_x, offset_y |-> offset_y]

NoFrame ==
    [by |-> "none", face |-> "none", height_left |-> 0, height_right |-> 0,
     offset_x |-> 0, offset_y |-> 0]

PanTiltNoCall == [name |-> "none", eye |-> "both"]

ServoIdle == [state |-> "idle", issued |-> 0, steps |-> 0]

\* The locals of draw_eyes and the threads of look when no call runs
PanTiltIdleLocals ==
    /\ pt_pc' = "idle"
    /\ pt_movement_speed' = 0
    /\ pt_target_offset_x' = 0
    /\ pt_target_offset_y' = 0
    /\ pt_blink_height_left' = 0
    /\ pt_blink_height_right' = 0
    /\ pt_blink_direction' = 0
    /\ current_eyelid_positions' = NoEyelids
    /\ servo' = ServoIdle

\* The globals of eyes-pantilt.py as the module sets them, with configuration cfg
PanTiltStart(cfg) ==
    /\ pt_config = cfg
    /\ pt_current_face = "default"
    /\ pt_current_offset_x = 0
    /\ pt_current_offset_y = 0
    /\ pt_current_curious = FALSE
    /\ pt_current_closed = "False"
    /\ pt_pc = "idle"
    /\ pt_call = PanTiltNoCall
    /\ pt_movement_speed = 0
    /\ pt_target_offset_x = 0
    /\ pt_target_offset_y = 0
    /\ pt_blink_height_left = 0
    /\ pt_blink_height_right = 0
    /\ pt_blink_direction = 0
    /\ current_eyelid_positions = NoEyelids
    /\ servo = ServoIdle
    /\ pt_frame = NoFrame
    /\ pt_drew = FALSE
    /\ since_close_both = FALSE
    /\ closed_eyes = {}
    /\ last_call = PanTiltNoCall

PanTiltOff == PanTiltStart(PanTiltDefaultConfig)

\* What a returning call leaves behind: it becomes the last completed call
Returned ==
    /\ last_call' = pt_call
    /\ PanTiltIdleLocals

\* The eyes an eye argument selects
EyesOf(eye) ==
    CASE eye = "both" -> {"left", "right"}
      [] eye = "left" -> {"left"}
      [] eye = "right" -> {"right"}
      [] OTHER -> {}

\* draw_eyes(device, config, face=face) with face None or the current face,
\* and closed, curious as given: one frame
PanTiltDrawEyes(face, cur, closed) ==
    /\ pt_pc = "idle"
    /\ IF IsNone(face) THEN TRUE ELSE Val(face) = pt_current_face
    /\ UNCHANGED otherThanPanTilt
    /\ pt_current_curious' = IF IsNone(cur) THEN pt_current_curious ELSE Val(cur)
    /\ pt_current_closed' = IF IsNone(closed) THEN pt_current_closed ELSE Val(closed)
    /\ pt_frame' = PanTiltFrame(pt_config, "draw_eyes", pt_current_face,
                                pt_current_offset_x, pt_current_offset_y,
                                None, None, pt_current_closed')
    /\ pt_drew' = TRUE
    /\ pt_call' = [PanTiltNoCall EXCEPT !.name = "draw_eyes"]
    /\ last_call' = pt_call'
    /\ PanTiltIdleLocals
    /\ closed_eyes' = IF IsNone(closed) THEN closed_eyes
                      ELSE closed_eyes \cup EyesOf(Val(closed))
    /\ UNCHANGED <<pt_config, pt_current_face, pt_current_offset_x, pt_current_offset_y,
                   since_close_both>>

\* draw_eyes(device, config, face=face) with a face other than current_face:
\* current_face is set and the eyelid adjustment begins; the curious and
\* closed arguments are not read on this path
FaceChange(face) ==
    /\ pt_pc = "idle"
    /\ face # pt_current_face
    /\ UNCHANGED otherThanPanTilt
    /\ pt_current_face' = face
    /\ pt_pc' = "face"
    /\ pt_call' = [PanTiltNoCall EXCEPT !.name = "face"]
    /\ current_eyelid_positions' = NoEyelids
    /\ pt_drew' = FALSE
    /\ UNCHANGED <<pt_config, pt_current_offset_x, pt_current_offset_y, pt_current_curious,
                   pt_current_closed, pt_movement_speed, pt_target_offset_x,
                   pt_target_offset_y, pt_blink_height_left, pt_blink_height_right,
                   pt_blink_direction, servo, pt_frame, since_close_both, closed_eyes, last_call>>

\* An iteration of the eyelid adjustment loop: the positions step toward the
\* target and the nested draw_eyes renders a frame
FaceStep ==
    /\ pt_pc = "face"
    /\ current_eyelid_positions # target_eyelid_heights(pt_config, pt_current_face)
    /\ UNCHANGED otherThanPanTilt
    /\ current_eyelid_positions' =
            AdjustEyelids(current_eyelid_positions,
                          target_eyelid_heights(pt_config, pt_current_face))
    /\ pt_frame' = PanTiltFrame(pt_config, "face", pt_current_face,
                                pt_current_offset_x, pt_current_offset_y,
                                None, None, pt_current_closed)
    /\ pt_drew' = TRUE
    /\ UNCHANGED <<pt_config, pt_current_face, pt_current_offset_x, pt_current_offset_y,
                   pt_current_curious, pt_current_closed, pt_pc, pt_call,
                   pt_movement_speed, pt_target_offset_x, pt_target_offset_y,
                   pt_blink_height_left, pt_blink_height_right, pt_blink_direction,
                   servo, since_close_both, closed_eyes, last_call>>

\* The adjustment loop's condition is false: draw_eyes returns
FaceReturn ==
    /\ pt_pc = "face"
    /\ current_eyelid_positions = target_eyelid_heights(pt_config, pt_current_face)
    /\ UNCHANGED otherThanPanTilt
    /\ Returned
    /\ UNCHANGED <<pt_config, pt_current_face, pt_current_offset_x, pt_current_offset_y,
                   pt_current_curious, pt_current_closed, pt_call, pt_frame, pt_drew,
                   since_close_both, closed_eyes>>

\* look's target offsets for a direction: the constraint on the axes the
\* direction names, zero on the others
PanTiltLookTarget(cfg, direction) ==
    LET c == get_constraints(cfg)
    IN  CASE direction = "L" -> <<c.min_x_offset, 0>>
          [] direction = "R" -> <<c.max_x_offset, 0>>
          [] direction = "T" -> <<0, c.min_y_offset>>
          [] direction = "B" -> <<0, c.max_y_offset>>
          [] direction = "TL" -> <<c.min_x_offset, c.min_y_offset>>
          [] direction = "TR" -> <<c.max_x_offset, c.min_y_offset>>
          [] direction = "BL" -> <<c.min_x_offset, c.max_y_offset>>
          [] direction = "BR" -> <<c.max_x_offset, c.max_y_offset>>
          [] OTHER -> <<0, 0>>

\* The pan/tilt steps of a servo movement the model follows: smooth_move
\* issues int(duration / step_delay) of them, 30 to 100
MaxServoSteps == 2

\* smooth_move's steps = int(duration / step_delay), duration from look's
\* speed_map {"slow": 0.8, "medium": 0.5, "fast": 0.3}.get(speed, 1)
ServoSteps(speed) ==
    LET count == CASE speed = "slow" -> 80
                    [] speed = "medium" -> 50
                    [] speed = "fast" -> 30
                    [] OTHER -> 100
    IN  Min(count, MaxServoSteps)

\* look(device, config, direction, speed, face, curious, closed): the globals
\* it sets, the targets it computes, and the start of its two threads
PanTiltLook(direction, speed, face, cur, closed) ==
    /\ pt_pc = "idle"
    /\ UNCHANGED otherThanPanTilt
    /\ pt_current_face' = IF IsNone(face) THEN pt_current_face ELSE Val(face)
    /\ pt_current_curious' = IF IsNone(cur) THEN pt_current_curious ELSE Val(cur)
    /\ pt_current_closed' = IF IsNone(closed) THEN pt_current_closed ELSE Val(closed)
    /\ pt_target_offset_x' = PanTiltLookTarget(pt_config, direction)[1]
    /\ pt_target_offset_y' = PanTiltLookTarget(pt_config, direction)[2]
    /\ pt_movement_speed' = LookSpeed(speed)
    /\ pt_pc' = "look_start"
    /\ pt_call' = [name |-> "look", eye |-> "both"]
    /\ servo' = [state |-> "running", issued |-> 0, steps |-> ServoSteps(speed)]
    /\ pt_drew' = FALSE
    /\ UNCHANGED <<pt_config, pt_current_offset_x, pt_current_offset_y,
                   pt_blink_height_left, pt_blink_height_right, pt_blink_direction,
                   current_eyelid_positions, pt_frame, since_close_both, closed_eyes, last_call>>

\* The screen thread enters draw_eyes(command="look"): the first frame, at
\* the current offsets
AnimateScreen ==
    /\ pt_pc = "look_start"
    /\ UNCHANGED otherThanPanTilt
    /\ pt_frame' = PanTiltFrame(pt_config, "look", pt_current_face,
                                pt_current_offset_x, pt_current_offset_y,
                                None, None, pt_current_closed)
    /\ pt_drew' = TRUE
    /\ pt_pc' = IF pt_current_offset_x = pt_target_offset_x
                    /\ pt_current_offset_y = pt_target_offset_y
                THEN "look_done" ELSE "look"
    /\ UNCHANGED <<pt_config, pt_current_face, pt_current_offset_x, pt_current_offset_y,
                   pt_current_curious, pt_current_closed, pt_call, pt_movement_speed,
                   pt_target_offset_x, pt_target_offset_y, pt_blink_height_left,
                   pt_blink_height_right, pt_blink_direction, current_eyelid_positions,
                   servo, since_close_both, closed_eyes, last_call>>

\* An iteration of the look loop in the screen thread: the offsets step
\* toward the target and a frame is drawn with the heights of current_closed
PanTiltLookStep ==
    /\ pt_pc = "look"
    /\ UNCHANGED otherThanPanTilt
    /\ pt_current_offset_x' =
            StepToward(pt_current_offset_x, pt_target_offset_x, pt_movement_speed)
    /\ pt_current_offset_y' =
            StepToward(pt_current_offset_y, pt_target_offset_y, pt_movement_speed)
    /\ LET h == RenderHeights(pt_config, None, None, pt_current_closed)
       IN  pt_frame' = PanTiltFrame(pt_config, "look", pt_current_face,
                                    pt_current_offset_x', pt_current_offset_y',
                                    Some(h.left), Some(h.right), pt_current_closed)
    /\ pt_drew' = TRUE
    /\ pt_pc' = IF pt_current_offset_x' = pt_target_offset_x
                    /\ pt_current_offset_y' = pt_target_offset_y
                THEN "look_done" ELSE "look"
    /\ UNCHANGED <<pt_config, pt_current_face, pt_current_curious, pt_current_closed,
                   pt_call, pt_movement_speed, pt_target_offset_x, pt_target_offset_y,
                   pt_blink_height_left, pt_blink_height_right, pt_blink_direction,
                   current_eyelid_positions, servo, since_close_both, closed_eyes, last_call>>

\* A step of smooth_move in the servo thread: pantilthat.pan and
\* pantilthat.tilt are called. The eased angles they are given are not
\* followed, only how many steps were issued.
smooth_move ==
    /\ servo.state = "running"
    /\ UNCHANGED otherThanPanTilt
    /\ servo' = [servo EXCEPT !.issued = @ + 1,
                              !.state = IF servo.issued + 1 = servo.steps
                                        THEN "done" ELSE "running"]
    /\ UNCHANGED <<pt_config, pt_current_face, pt_current_offset_x, pt_current_offset_y,
                   pt_current_curious, pt_current_closed, pt_pc, pt_call,
                   pt_movement_speed, pt_target_offset_x, pt_target_offset_y,
                   pt_blink_height_left, pt_blink_height_right, pt_blink_direction,
                   current_eyelid_positions, pt_frame, pt_drew, since_close_both, closed_eyes,
                   last_call>>

\* Both threads are joined: look returns
PanTiltLookReturn ==
    /\ pt_pc = "look_done"
    /\ servo.state = "done"
    /\ UNCHANGED otherThanPanTilt
    /\ Returned
    /\ UNCHANGED <<pt_config, pt_current_face, pt_current_offset_x, pt_current_offset_y,
                   pt_current_curious, pt_current_closed, pt_call, pt_frame, pt_drew,
                   since_close_both, closed_eyes>>

\* blink(device, config, eye, speed, face, curious, closed): the closed state
\* it sets, draw_eyes' first frame and the start of the blink loop
PanTiltBlink(eye, speed, closed) ==
    /\ pt_pc = "idle"
    /\ UNCHANGED otherThanPanTilt
    /\ pt_current_closed' = IF IsNone(closed) THEN pt_current_closed ELSE Val(closed)
    /\ pt_frame' = PanTiltFrame(pt_config, "blink", pt_current_face,
                                pt_current_offset_x, pt_current_offset_y,
                                None, None, pt_current_closed')
    /\ pt_drew' = TRUE
    /\ pt_pc' = "blink"
    /\ pt_call' = [name |-> "blink", eye |-> eye]
    /\ pt_movement_speed' = BlinkSpeed(speed)
    /\ pt_blink_height_left' = pt_config.eye.left.height
    /\ pt_blink_height_right' = pt_config.eye.right.height
    /\ pt_blink_direction' = -1
    /\ UNCHANGED <<pt_config, pt_current_face, pt_current_offset_x, pt_current_offset_y,
                   pt_current_curious, pt_target_offset_x, pt_target_offset_y,
                   current_eyelid_positions, servo, since_close_both, closed_eyes,
                   last_call>>

\* An iteration of the blink loop that draws its frame and goes on: the
\* height of an eye the blink does not select is not passed to the draw
PanTiltBlinkStep ==
    /\ pt_pc = "blink"
    /\ UNCHANGED otherThanPanTilt
    /\ LET it == BlinkIter(pt_config, pt_call.eye, pt_movement_speed, pt_blink_direction,
                           pt_blink_height_left, pt_blink_height_right)
       IN  /\ ~it.brk
           /\ pt_blink_height_left' = it.left
           /\ pt_blink_height_right' = it.right
           /\ pt_blink_direction' = it.direction
           /\ pt_frame' = PanTiltFrame(pt_config, "blink", pt_current_face,
                                pt_current_offset_x, pt_current_offset_y,
                                IF pt_call.eye \in {"both", "left"}
                                THEN Some(it.left) ELSE None,
                                IF pt_call.eye \in {"both", "right"}
                                THEN Some(it.right) ELSE None,
                                pt_current_closed)
    /\ pt_drew' = TRUE
    /\ UNCHANGED <<pt_config, pt_current_face, pt_current_offset_x, pt_current_offset_y,
                   pt_current_curious, pt_current_closed, pt_pc, pt_call,
                   pt_movement_speed, pt_target_offset_x, pt_target_offset_y,
                   current_eyelid_positions, servo, since_close_both, closed_eyes,
                   last_call>>

\* The iteration that breaks out of the blink loop, and the final frame with
\* both eyes at their configured heights
PanTiltBlinkFinish ==
    /\ pt_pc = "blink"
    /\ UNCHANGED otherThanPanTilt
    /\ BlinkIter(pt_config, pt_call.eye, pt_movement_speed, pt_blink_direction,
                 pt_blink_height_left, pt_blink_height_right).brk
    /\ pt_frame' = PanTiltFrame(pt_config, "blink", pt_current_face,
                                pt_current_offset_x, pt_current_offset_y,
                                Some(pt_config.eye.left.height),
                                Some(pt_config.eye.right.height), pt_current_closed)
    /\ pt_drew' = TRUE
    /\ Returned
    /\ UNCHANGED <<pt_config, pt_current_face, pt_current_offset_x, pt_current_offset_y,
                   pt_current_curious, pt_current_closed, pt_call, since_close_both,
                   closed_eyes>>

\* One iteration of the close loop: the new heights, and the value the
\* iteration gives current_closed when it breaks ("": the loop goes on)
CloseIter(eye, step, height_left, height_right) ==
    LET selL == eye \in {"both", "left"}
        selR == eye \in {"both", "right"}
        l == IF selL THEN Max(1, height_left - step) ELSE height_left
        r == IF selR THEN Max(1, height_right - step) ELSE height_right
    IN  [left |-> l, right |-> r,
         closed |-> IF (l <= 1 /\ selL) /\ (r <= 1 /\ selR) THEN "both"
                    ELSE IF l <= 1 /\ selL THEN "left"
                    ELSE IF r <= 1 /\ selR THEN "right"
                    ELSE ""]

\* eye_close(device, config, eye, speed, face, curious, closed): the closed
\* state it sets, draw_eyes' first frame and the start of the close loop
PanTiltEyeClose(eye, speed, closed) ==
    /\ pt_pc = "idle"
    /\ UNCHANGED otherThanPanTilt
    /\ pt_current_closed' = IF IsNone(closed) THEN pt_current_closed ELSE Val(closed)
    /\ pt_frame' = PanTiltFrame(pt_config, "close", pt_current_face,
                                pt_current_offset_x, pt_current_offset_y,
                                None, None, pt_current_closed')
    /\ pt_drew' = TRUE
    /\ pt_pc' = "close"
    /\ pt_call' = [name |-> "close", eye |-> eye]
    /\ pt_movement_speed' = BlinkSpeed(speed)
    /\ pt_blink_height_left' = pt_config.eye.left.height
    /\ pt_blink_height_right' = pt_config.eye.right.height
    /\ UNCHANGED <<pt_config, pt_current_face, pt_current_offset_x, pt_current_offset_y,
                   pt_current_curious, pt_target_offset_x, pt_target_offset_y,
                   pt_blink_direction, current_eyelid_positions, servo,
                   since_close_both, closed_eyes, last_call>>

\* An iteration of the close loop: the selected eyes shrink, the frame is
\* drawn, and when a selected eye is down to one pixel current_closed is set
\* and eye_close returns
PanTiltCloseStep ==
    /\ pt_pc = "close"
    /\ UNCHANGED otherThanPanTilt
    /\ LET it == CloseIter(pt_call.eye, pt_movement_speed, pt_blink_height_left,
                           pt_blink_height_right)
       IN  /\ pt_frame' = PanTiltFrame(pt_config, "close", pt_current_face,
                                pt_current_offset_x, pt_current_offset_y,
                                Some(it.left), Some(it.right), pt_current_closed)
           /\ IF it.closed = ""
              THEN /\ pt_blink_height_left' = it.left
                   /\ pt_blink_height_right' = it.right
                   /\ UNCHANGED <<pt_current_closed, pt_pc, pt_movement_speed,
                                  pt_target_offset_x, pt_target_offset_y,
                                  pt_blink_direction, current_eyelid_positions, servo,
                                  since_close_both, closed_eyes, last_call>>
              ELSE /\ pt_current_closed' = it.closed
                   /\ since_close_both' = (since_close_both \/ pt_call.eye = "both")
                   /\ closed_eyes' = closed_eyes \cup EyesOf(pt_call.eye)
                   /\ Returned
    /\ pt_drew' = TRUE
    /\ UNCHANGED <<pt_config, pt_current_face, pt_current_offset_x, pt_current_offset_y,
                   pt_current_curious, pt_call>>

\* One iteration of the open loop: the new heights, and the value the
\* iteration gives current_closed when it breaks ("": the loop goes on)
OpenIter(cfg, eye, step, height_left, height_right, closed) ==
    LET left_orig == cfg.eye.left.height
        right_orig == cfg.eye.right.height
        selL == eye \in {"both", "left"}
        selR == eye \in {"both", "right"}
        l == IF selL THEN Min(left_orig, height_left + step) ELSE height_left
        r == IF selR THEN Min(right_orig, height_right + step) ELSE height_right
    IN  [left |-> l, right |-> r,
         closed |-> IF (l >= left_orig /\ selL) /\ (r >= right_orig /\ selR) THEN "None"
                    ELSE IF l >= left_orig /\ selL
                    THEN (IF closed = "both" THEN "right" ELSE "None")
                    ELSE IF r >= right_orig /\ selR
                    THEN (IF closed = "both" THEN "left" ELSE "None")
                    ELSE ""]

\* eye_open(device, config, eye, speed, ...) while current_closed is None:
\* the wrapper returns at once
PanTiltEyeOpenNone(eye) ==
    /\ pt_pc = "idle"
    /\ pt_current_closed = "None"
    /\ UNCHANGED otherThanPanTilt
    /\ pt_call' = [name |-> "open", eye |-> eye]
    /\ last_call' = pt_call'
    /\ pt_drew' = FALSE
    /\ since_close_both' = FALSE
    /\ closed_eyes' = closed_eyes \ EyesOf(eye)
    /\ PanTiltIdleLocals
    /\ UNCHANGED <<pt_config, pt_current_face, pt_current_offset_x, pt_current_offset_y,
                   pt_current_curious, pt_current_closed, pt_frame>>

\* eye_open(...) otherwise: draw_eyes' first frame; with current_closed False
\* draw_eyes returns, else the open loop starts from the closed heights
PanTiltEyeOpen(eye, speed) ==
    /\ pt_pc = "idle"
    /\ pt_current_closed # "None"
    /\ UNCHANGED otherThanPanTilt
    /\ pt_frame' = PanTiltFrame(pt_config, "open", pt_current_face,
                                pt_current_offset_x, pt_current_offset_y,
                                None, None, pt_current_closed)
    /\ pt_drew' = TRUE
    /\ pt_call' = [name |-> "open", eye |-> eye]
    /\ since_close_both' = FALSE
    /\ IF pt_current_closed = "False"
       THEN /\ last_call' = pt_call'
            /\ closed_eyes' = closed_eyes \ EyesOf(eye)
            /\ PanTiltIdleLocals
       ELSE /\ pt_pc' = "open"
            /\ pt_movement_speed' = BlinkSpeed(speed)
            /\ pt_blink_height_left' =
                    RenderHeights(pt_config, None, None, pt_current_closed).left
            /\ pt_blink_height_right' =
                    RenderHeights(pt_config, None, None, pt_current_closed).right
            /\ UNCHANGED <<pt_target_offset_x, pt_target_offset_y, pt_blink_direction,
                           current_eyelid_positions, servo, closed_eyes, last_call>>
    /\ UNCHANGED <<pt_config, pt_current_face, pt_current_offset_x, pt_current_offset_y,
                   pt_current_curious, pt_current_closed>>

\* An iteration of the open loop: the selected eyes grow, the frame is
\* drawn, and when a selected eye is at its configured height
\* current_closed is set and eye_open returns
PanTiltOpenStep ==
    /\ pt_pc = "open"
    /\ UNCHANGED otherThanPanTilt
    /\ LET it == OpenIter(pt_config, pt_call.eye, pt_movement_speed,
                          pt_blink_height_left, pt_blink_height_right, pt_current_closed)
       IN  /\ pt_frame' = PanTiltFrame(pt_config, "open", pt_current_face,
                                pt_current_offset_x, pt_current_offset_y,
                                Some(it.left), Some(it.right), pt_current_closed)
           /\ IF it.closed = ""
              THEN /\ pt_blink_height_left' = it.left
                   /\ pt_blink_height_right' = it.right
                   /\ UNCHANGED <<pt_current_closed, pt_pc, pt_movement_speed,
                                  pt_target_offset_x, pt_target_offset_y,
                                  pt_blink_direction, current_eyelid_positions, servo,
                                  closed_eyes, last_call>>
              ELSE /\ pt_current_closed' = it.closed
                   /\ closed_eyes' = closed_eyes \ EyesOf(pt_call.eye)
                   /\ Returned
    /\ pt_drew' = TRUE
    /\ UNCHANGED <<pt_config, pt_current_face, pt_current_offset_x, pt_current_offset_y,
                   pt_current_curious, pt_call, since_close_both>>

--------------------------------------------------------------------------
(* src/eye-dev/eyes.py: main's loading of screenconfig.toml and            *)
(* eyeconfig.toml. A dictionary is a function on its keys; a value is a    *)
(* leaf or a nested dictionary (a TOML table).                             *)

Leaf(v) == <<"leaf", v>>

Table(d) == <<"table", d>>

IsTable(node) == node[1] = "table"

\* No dictionary yet: the local is not assigned
NoConfig == <<>>

\* DEFAULT_SCREEN_CONFIG
DEFAULT_SCREEN_CONFIG ==
    [screen |-> Table([type |-> Leaf("oled"),
                       driver |-> Leaf("ssd1306"),
                       width |-> Leaf(ScreenWidth),
                       height |-> Leaf(ScreenHeight),
                       rotate |-> Leaf(0),
                       interface |-> Leaf("i2c"),
                       i2c |-> Table([address |-> Leaf("0x3C"),
                                      i2c_port |-> Leaf(1)])])]

\* DEFAULT_RENDER_CONFIG
DEFAULT_RENDER_CONFIG ==
    [render |-> Table([fps |-> Leaf(30)]),
     eye |-> Table([distance |-> Leaf(EyeDistance),
                    left |-> Table([width |-> Leaf(EyeWidth),
                                    height |-> Leaf(EyeHeight),
                                    roundness |-> Leaf(8)]),
                    right |-> Table([width |-> Leaf(EyeWidth),
                                     height |-> Leaf(EyeHeight),
                                     roundness |-> Leaf(8)])])]

\* The values a configuration file sets: 1..MaxFileValue, none of them a default
MaxFileValue == 1

FileLeaves == {Leaf(v) : v \in 1..MaxFileValue}

\* The TOML tables that set some of the keys, each to a value of values
TomlTables(keys, values) == UNION {[S -> values] : S \in SUBSET keys}

Optional(S) == {None} \cup {Some(x) : x \in S}

\* The keys of [eye.left] and [eye.right] a file sets
FileSideKeys == {"width", "height"}

SideSections == TomlTables(FileSideKeys, FileLeaves)

\* An [eye] table with the distance and the [eye.left], [eye.right] tables it gives
EyeSection(distance, left, right) ==
    LET given == [distance |-> distance, left |-> left, right |-> right]
    IN  [key \in {k \in {"distance", "left", "right"} : ~IsNone(given[k])} |->
            IF key = "distance" THEN Leaf(Val(distance)) ELSE Table(Val(given[key]))]

EyeSections ==
    {EyeSection(distance, left, right) :
        distance \in Optional(1..MaxFileValue),
        left \in Optional(SideSections), right \in Optional(SideSections)}

\* What toml.load returns for a file with the top-level tables given
TomlFile(sections) ==
    [key \in {k \in DOMAIN sections : ~IsNone(sections[k])} |-> Table(Val(sections[key]))]

\* A file on disk: absent, unreadable as TOML, or the dictionary toml.load returns
Missing == <<"missing">>

Invalid == <<"invalid">>

Present(dict) == <<"file", dict>>

\* The eyeconfig.toml files
RenderFiles ==
    {Missing, Invalid} \cup
    {Present(TomlFile([render |-> render, eye |-> eye])) :
        render \in Optional(TomlTables({"fps"}, FileLeaves)),
        eye \in Optional(EyeSections)}

\* The screenconfig.toml files
ScreenFiles ==
    {Missing, Invalid} \cup
    {Present(TomlFile([screen |-> screen])) :
        screen \in Optional(TomlTables({"width", "rotate"}, FileLeaves))}

\* {**a, **b}: the keys of both, b's value wherever b has the key
Merge(a, b) ==
    [key \in DOMAIN a \cup DOMAIN b |-> IF key \in DOMAIN b THEN b[key] ELSE a[key]]

\* load_config(file_path, default_config): the dictionary returned, or None
\* when it ends the program with sys.exit(1)
load_config(file, default_config) ==
    CASE file[1] = "missing" -> Some(default_config)
      [] file[1] = "invalid" -> None
      [] OTHER -> Some(Merge(default_config, file[2]))

\* validate_screen_config and get_device find what they read in the
\* screen section
ScreenConfigValid(cfg) ==
    /\ "screen" \in DOMAIN cfg
    /\ LET screen == cfg["screen"][2]
       IN  /\ {"type", "driver", "width", "height", "interface"} \subseteq DOMAIN screen
           /\ screen["interface"] = Leaf("i2c") => "i2c" \in DOMAIN screen

\* draw_eyes finds the keys it reads: config["eye"]["left"], ["right"],
\* ["distance"], and each eye's width, height and roundness
EyeKeysPresent(cfg) ==
    /\ "eye" \in DOMAIN cfg
    /\ LET eye == cfg["eye"][2]
       IN  /\ {"left", "right", "distance"} \subseteq DOMAIN eye
           /\ \A side \in {"left", "right"} :
                {"width", "height", "roundness"} \subseteq DOMAIN eye[side][2]

\* Before main runs, with the two files on disk
MainStart(files) ==
    /\ toml_files = files
    /\ screen_config = NoConfig
    /\ render_config = NoConfig
    /\ main_config = NoConfig
    /\ main_pc = "start"

MainOff == MainStart([screen |-> Missing, eye |-> Missing])

\* screen_config = load_config("screenconfig.toml", DEFAULT_SCREEN_CONFIG)
LoadScreenConfig ==
    /\ main_pc = "start"
    /\ UNCHANGED otherThanMain
    /\ LET result == load_config(toml_files.screen, DEFAULT_SCREEN_CONFIG)
       IN  IF IsNone(result)
           THEN main_pc' = "exit" /\ UNCHANGED screen_config
           ELSE main_pc' = "screen" /\ screen_config' = Val(result)
    /\ UNCHANGED <<toml_files, render_config, main_config>>

\* render_config = load_config("eyeconfig.toml", DEFAULT_RENDER_CONFIG)
LoadRenderConfig ==
    /\ main_pc = "screen"
    /\ UNCHANGED otherThanMain
    /\ LET result == load_config(toml_files.eye, DEFAULT_RENDER_CONFIG)
       IN  IF IsNone(result)
           THEN main_pc' = "exit" /\ UNCHANGED render_config
           ELSE main_pc' = "render" /\ render_config' = Val(result)
    /\ UNCHANGED <<toml_files, screen_config, main_config>>

\* config = {**screen_config, **render_config}
MergeConfigs ==
    /\ main_pc = "render"
    /\ UNCHANGED otherThanMain
    /\ main_config' = Merge(screen_config, render_config)
    /\ main_pc' = "merged"
    /\ UNCHANGED <<toml_files, screen_config, render_config>>

\* device = get_device(config): validate_screen_config ends the program
\* when a required field is missing
GetDevice ==
    /\ main_pc = "merged"
    /\ UNCHANGED otherThanMain
    /\ main_pc' = IF ScreenConfigValid(main_config) THEN "device" ELSE "exit"
    /\ UNCHANGED <<toml_files, screen_config, render_config, main_config>>

\* main's first draw_eyes(device, config): it reads the eye parameters, and
\* a key that is not there raises KeyError
FirstDrawEyes ==
    /\ main_pc = "device"
    /\ UNCHANGED otherThanMain
    /\ main_pc' = IF EyeKeysPresent(main_config) THEN "drawing" ELSE "KeyError"
    /\ UNCHANGED <<toml_files, screen_config, render_config, main_config>>

--------------------------------------------------------------------------
(* The specifications: one per script                                      *)

\* The calls the environment makes. face is a parameter blink, eye_close and
\* eye_open never read; closed is passed to draw_eyes, eye_close and eye_open.
EyesNext ==
    \/ \E face \in FaceArgs, cur \in BoolArgs, closed \in BoolArgs :
            DrawEyes(face, cur, closed)
    \/ \E direction \in Directions, speed \in Speeds, face \in FaceArgs, cur \in BoolArgs :
            Look(direction, speed, face, cur, None)
    \/ LookStep
    \/ LookReturn
    \/ \E eye \in Eyes, speed \in Speeds, cur \in BoolArgs :
            Blink(eye, speed, None, cur, None)
    \/ BlinkStep
    \/ BlinkFinish
    \/ \E eye \in Eyes, speed \in Speeds, closed \in BoolArgs :
            EyeClose(eye, speed, None, None, closed)
    \/ CloseStep
    \/ \E eye \in Eyes, speed \in Speeds, closed \in BoolArgs :
            EyeOpen(eye, speed, None, None, closed)
    \/ OpenStep

EyesInit ==
    /\ \E cfg \in Configs : EyesStart(cfg)
    /\ GpioOff
    /\ GfxOff
    /\ OledOff
    /\ PanTiltOff
    /\ MainOff

SpecEyes == EyesInit /\ [][EyesNext]_vars

\* The program restricted to draw_eyes, eye_close and eye_open calls; the
\* interpreter runs a started loop on, so every enabled step is taken.
EyeLidsNext ==
    \/ \E face \in FaceArgs, cur \in BoolArgs, closed \in BoolArgs :
            DrawEyes(face, cur, closed)
    \/ \E eye \in Eyes, speed \in Speeds, closed \in BoolArgs :
            EyeClose(eye, speed, None, None, closed)
    \/ CloseStep
    \/ \E eye \in Eyes, speed \in Speeds, closed \in BoolArgs :
            EyeOpen(eye, speed, None, None, closed)
    \/ OpenStep

FairSpecEyeLids == EyesInit /\ [][EyeLidsNext]_vars /\ WF_vars(EyeLidsNext)


GpioInit ==
    /\ \E f \in GpioFiles, g \in GpioOptions, e \in EncoderOptions :
            GpioStart(f, [gpios |-> g, encoder |-> e])
    /\ EyesStart(DefaultConfig)
    /\ GfxOff
    /\ OledOff
    /\ PanTiltOff
    /\ MainOff

GpioNext ==
    \/ OnLoaded
    \/ OnLoadedEditing
    \/ \E pin \in Pins : Press(pin)
    \/ \E pin \in Pins : Hold(pin)
    \/ \E pin \in Pins : Release(pin)
    \/ \E delta \in {-1, 1} : Rotate(delta)

SpecGpio == GpioInit /\ [][GpioNext]_vars

\* gpiocontrol-editing.py with the callbacks on the threads gpiozero runs
\* them on: when_held on the button's hold thread, when_pressed and
\* when_released on the pin event thread
GpioThreadsInit ==
    /\ \E g \in GpioOptions : GpioStart("editing", [gpios |-> g, encoder |-> NoEncoder])
    /\ EyesStart(DefaultConfig)
    /\ GfxOff
    /\ OledOff
    /\ PanTiltOff
    /\ MainOff

GpioThreadsNext ==
    \/ OnLoadedEditing
    \/ \E pin \in GpioPins : Press(pin)
    \/ \E pin \in GpioPins : Hold(pin)
    \/ \E pin \in GpioPins : WhenHeldFires(pin)
    \/ \E pin \in GpioPins : on_button_held(pin)
    \/ \E pin \in GpioPins : Release(pin)

SpecGpioThreads == GpioThreadsInit /\ [][GpioThreadsNext]_vars

\* gpiocontrol-editing.py with an encoder, turned over its whole range
EncoderInit ==
    /\ \E g \in GpioOptions, e \in EncoderOptions :
            /\ Len(g) = 1
            /\ e.present
            /\ GpioStart("editing", [gpios |-> g, encoder |-> e])
    /\ EyesStart(DefaultConfig)
    /\ GfxOff
    /\ OledOff
    /\ PanTiltOff
    /\ MainOff

EncoderNext ==
    \/ OnLoadedEditing
    \/ \E delta \in {-1, 1} : RotateEditing(delta)

SpecEncoder == EncoderInit /\ [][EncoderNext]_vars

GfxInit ==
    /\ \E o \in TouchOptions : GfxStart(o)
    /\ EyesStart(DefaultConfig)
    /\ GpioOff
    /\ OledOff
    /\ PanTiltOff
    /\ MainOff

GfxNext ==
    \/ GfxOnLoaded
    \/ \E b \in TouchButtons, kind \in {"press", "release", "held"} : Touch(b, kind)
    \/ TouchTick

SpecGfx == GfxInit /\ [][GfxNext]_vars

OledInit ==
    /\ \E f \in OledFiles, k \in FailPoints, n \in 1..MaxIps : OledStart(f, k, n)
    /\ EyesStart(DefaultConfig)
    /\ GpioOff
    /\ GfxOff
    /\ PanTiltOff
    /\ MainOff

OledNext ==
    \/ \E k \in FailPoints, n \in 1..MaxIps : OnUiUpdate(k, n)
    \/ \E ok \in BOOLEAN : OnUiUpdateSubprocess(ok)
    \/ OnUiUpdateV2
    \/ OnUnload
    \/ OledTick

SpecOled == OledInit /\ [][OledNext]_vars

PanTiltInit ==
    /\ \E cfg \in PanTiltConfigs : PanTiltStart(cfg)
    /\ EyesStart(DefaultConfig)
    /\ GpioOff
    /\ GfxOff
    /\ OledOff
    /\ MainOff

\* The calls the environment makes on eyes-pantilt.py, and the steps of the
\* loops and threads they start
PanTiltNext ==
    \/ \E closed \in ClosedArgs : PanTiltDrawEyes(None, None, closed)
    \/ \E face \in PanTiltFaces : FaceChange(face)
    \/ FaceStep
    \/ FaceReturn
    \/ \E eye \in Eyes, speed \in Speeds : PanTiltBlink(eye, speed, None)
    \/ PanTiltBlinkStep
    \/ PanTiltBlinkFinish
    \/ \E eye \in Eyes, speed \in Speeds : PanTiltEyeClose(eye, speed, None)
    \/ PanTiltCloseStep
    \/ \E eye \in Eyes : PanTiltEyeOpenNone(eye)
    \/ \E eye \in Eyes, speed \in Speeds : PanTiltEyeOpen(eye, speed)
    \/ PanTiltOpenStep

SpecPanTilt == PanTiltInit /\ [][PanTiltNext]_vars

\* look, whose screen and servo threads run side by side, among plain redraws
PanTiltLookNext ==
    \/ \E closed \in ClosedArgs : PanTiltDrawEyes(None, None, closed)
    \/ \E direction \in Directions, speed \in Speeds :
            PanTiltLook(direction, speed, None, None, None)
    \/ AnimateScreen
    \/ PanTiltLookStep
    \/ smooth_move
    \/ PanTiltLookReturn

SpecPanTiltLook == PanTiltInit /\ [][PanTiltLookNext]_vars

\* main of eyes.py, from the two configuration files to its first frame
MainInit ==
    /\ \E screen \in ScreenFiles, eye \in RenderFiles :
            MainStart([screen |-> screen, eye |-> eye])
    /\ EyesStart(DefaultConfig)
    /\ GpioOff
    /\ GfxOff
    /\ OledOff
    /\ PanTiltOff

MainNext ==
    \/ LoadScreenConfig
    \/ LoadRenderConfig
    \/ MergeConfigs
    \/ GetDevice
    \/ FirstDrawEyes

SpecMain == MainInit /\ [][MainNext]_vars

--------------------------------------------------------------------------
(* Claims about src/eye-dev/eyes.py                                        *)

\* The target the claim names for a direction, from the constraints
ClaimedTarget(direction, offset_x, offset_y) ==
    LET c == get_constraints(config)
        x == IF direction \in {"L", "TL", "BL"} THEN c.min_x_offset
             ELSE IF direction \in {"R", "TR", "BR"} THEN c.max_x_offset
             ELSE IF direction = "C" THEN 0 ELSE offset_x
        y == IF direction \in {"T", "TL", "TR"} THEN c.min_y_offset
             ELSE IF direction \in {"B", "BL", "BR"} THEN c.max_y_offset
             ELSE IF direction = "C" THEN 0 ELSE offset_y
    IN  <<x, y>>

\* How far the running look is from its target
LookDistance ==
    Abs(target_offset_x - current_offset_x) + Abs(target_offset_y - current_offset_y)

\* C1: look() terminates and returns with the global offsets at the target of
\* its direction. The call fixes the target the claim names for the direction
\* from the offsets it starts at; every iteration of the loop keeps that target
\* and brings the offsets strictly nearer to it (so the loop ends); the loop is
\* never stuck; and look returns only with the offsets equal to the target.
C1_LookReachesTarget ==
    [][/\ (pc = "idle" /\ pc' = "look") =>
            /\ <<target_offset_x', target_offset_y'>> =
                    ClaimedTarget(call'.direction, current_offset_x, current_offset_y)
            /\ UNCHANGED <<current_offset_x, current_offset_y>>
       /\ (pc = "look" /\ pc' = "look") =>
            /\ UNCHANGED <<target_offset_x, target_offset_y, call>>
            /\ LookDistance' < LookDistance
       /\ (pc = "look" /\ pc' = "idle") =>
            /\ UNCHANGED <<current_offset_x, current_offset_y>>
            /\ <<current_offset_x, current_offset_y>> = <<target_offset_x, target_offset_y>>
       /\ pc = "look" => ENABLED (LookStep \/ LookReturn)
      ]_vars

\* A look to the bottom left has returned with both offsets moved to the constraints.
C1_Witness ==
    /\ pc = "idle"
    /\ frame.by = "look"
    /\ current_offset_x = get_constraints(config).min_x_offset
    /\ current_offset_y = get_constraints(config).max_y_offset
    /\ current_offset_x < 0
    /\ current_offset_y > 0

\* Both eye rectangles of a frame lie on the screen
OnScreen(f) ==
    \A r \in {f.left_eye_coords, f.right_eye_coords} :
        /\ 0 <= r[1] /\ r[3] <= config.screen.width
        /\ 0 <= r[2] /\ r[4] <= config.screen.height

\* C2: in every frame drawn during a sequence of look() calls from offset
\* (0,0), curious mode on or off, both eye rectangles lie on the screen.
C2_LookFramesOnScreen == frame.by = "look" => OnScreen(frame)

\* C3: eye_close() called with open eyes and eye_open() called with closed
\* eyes terminate for eye = "left", "right" and "both" and each speed: a
\* running close or open loop always reaches its break.
C3_CloseOpenTerminate == (pc \in {"close", "open"}) ~> (pc = "idle")

\* The sum of f over the eyes the running blink animates
OverBlinkingEyes(left, right) ==
    (IF call.eye \in {"both", "left"} THEN left ELSE 0)
    + (IF call.eye \in {"both", "right"} THEN right ELSE 0)

\* What is left of the running blink: while closing, the heights still to
\* lose and the whole opening phase; while opening, the heights still to gain.
BlinkRemaining ==
    IF blink_direction = -1
    THEN OverBlinkingEyes(blink_height_left, blink_height_right)
         + OverBlinkingEyes(config.eye.left.height, config.eye.right.height) + 1
    ELSE OverBlinkingEyes(config.eye.left.height - blink_height_left,
                          config.eye.right.height - blink_height_right)

RECURSIVE HasEveryKey(_, _)
HasEveryKey(default_config, cfg) ==
    \A key \in DOMAIN default_config :
        /\ key \in DOMAIN cfg
        /\ IsTable(default_config[key]) =>
                /\ IsTable(cfg[key])
                /\ HasEveryKey(default_config[key][2], cfg[key][2])

\* Every value the file sets, at every nesting level, is the value in cfg
RECURSIVE Overrides(_, _)
Overrides(file, cfg) ==
    \A key \in DOMAIN file :
        /\ key \in DOMAIN cfg
        /\ IF IsTable(file[key])
           THEN IsTable(cfg[key]) /\ Overrides(file[key][2], cfg[key][2])
           ELSE cfg[key] = file[key]

\* What load_config is said to return for file and default_config
MergedWithDefaults(file, default_config, cfg) ==
    IF file[1] = "missing"
    THEN cfg = default_config
    ELSE HasEveryKey(default_config, cfg) /\ Overrides(file[2], cfg)

\* C21: load_config merges defaults with the loaded config: for a missing
\* file it returns exactly default_config, and for a file that exists the
\* returned configuration has every key of default_config at every nesting
\* level, with the file's values in place of the defaults
C21_LoadConfigMergesDefaults ==
    /\ main_pc \in {"screen", "render", "merged", "device", "drawing", "KeyError"} =>
            MergedWithDefaults(toml_files.screen, DEFAULT_SCREEN_CONFIG, screen_config)
    /\ main_pc \in {"render", "merged", "device", "drawing", "KeyError"} =>
            MergedWithDefaults(toml_files.eye, DEFAULT_RENDER_CONFIG, render_config)

--------------------------------------------------------------------------
(* Claims about src/gpiocontrol.py and src/gpiocontrol-editing.py          *)

\* Every configured GPIO button has a short_press and a long_press command
AllButtonsHaveBoth ==
    \A g \in DOMAIN options.gpios :
        options.gpios[g].short_press # None /\ options.gpios[g].long_press # None

\* C5: with two or more GPIO buttons configured with different commands (an
\* encoder push button configured or not), a short press on GPIO g (pressed
\* and released before hold_time) runs exactly g's short_press command, and a
\* hold on g runs exactly g's long_press command.
C5_ButtonRunsItsOwnCommand ==
    (loaded /\ Len(options.gpios) >= 2 /\ AllButtonsHaveBoth) =>
        \A g \in DOMAIN options.gpios :
            /\ event = [kind |-> "release", pin |-> g] =>
                    ran = <<options.gpios[g].short_press>>
            /\ event = [kind |-> "held", pin |-> g] =>
                    last_ran = <<options.gpios[g].long_press>>

\* C6: in gpiocontrol.py, for a GPIO button with both commands, a press held
\* for hold_time has run the long_press command and not the short_press
\* command, and a press released before hold_time has run only short_press.
C6_HoldRunsOnlyLongPress ==
    (gpio_file = "gpiocontrol" /\ loaded) =>
        \A g \in DOMAIN options.gpios :
            (options.gpios[g].short_press # None /\ options.gpios[g].long_press # None) =>
                /\ event = [kind |-> "held", pin |-> g] =>
                        ran = <<options.gpios[g].long_press>>
                /\ event = [kind |-> "release", pin |-> g] =>
                        ran = <<options.gpios[g].short_press>>

\* C7: in gpiocontrol.py every clockwise step of the encoder runs
\* encoder_up_command and every counterclockwise step encoder_down_command,
\* whatever the accumulated count.
C7_RotationRunsItsCommand ==
    (gpio_file = "gpiocontrol" /\ loaded /\ options.encoder.present) =>
        /\ event.kind = "cw" => last_ran = <<options.encoder.up_command>>
        /\ event.kind = "ccw" => last_ran = <<options.encoder.down_command>>

\* C13: in gpiocontrol-editing.py the hold flag tells a long press from a
\* short one: in one press/release cycle of a GPIO button, whatever the
\* order in which on_button_held and on_button_released run, a short press
\* command and a long press command are never both run.
C13_NeverShortAndLong ==
    gpio_file = "editing" =>
        ~\E i \in DOMAIN ran, j \in DOMAIN ran : ran[i][1] = "short" /\ ran[j][1] = "long"

\* C14: in gpiocontrol-editing.py every clockwise step of the encoder runs
\* encoder_up_command and every counterclockwise step encoder_down_command,
\* the step on which the count wraps at max_steps included, and afterwards
\* previous_step is the step count the handler saw.
C14_EveryStepRunsItsCommand ==
    (gpio_file = "editing" /\ loaded /\ options.encoder.present) =>
        /\ event.kind = "cw" => last_ran = <<options.encoder.up_command>>
        /\ event.kind = "ccw" => last_ran = <<options.encoder.down_command>>
        /\ event.kind \in {"cw", "ccw"} => previous_step = steps

\* C15: in gpiocontrol-editing.py an encoder push button configured with
\* short_press and long_press behaves like a GPIO button: a press released
\* before hold_time has run the encoder's short_press command, and a press
\* held for hold_time runs the encoder's long_press command.
C15_EncoderButtonRunsItsCommands ==
    (/\ gpio_file = "editing"
     /\ loaded
     /\ options.encoder.present
     /\ options.encoder.button
     /\ options.encoder.short_press # None
     /\ options.encoder.long_press # None) =>
        /\ event = [kind |-> "release", pin |-> EncoderButtonPin] =>
                ran = <<options.encoder.short_press>>
        /\ event = [kind |-> "held", pin |-> EncoderButtonPin] =>
                last_ran = <<options.encoder.long_press>>

--------------------------------------------------------------------------
(* Claims about src/gfxhatcontrol.py                                       *)

\* C8: a press event hands nothing to runcommand and runs nothing. A release
\* event on a configured button whose press was seen hands runcommand exactly
\* one command of that button: its long_press when the release comes a second
\* or more after the button's most recent press event, otherwise its
\* short_press; a None or empty command runs nothing in a shell, any other
\* command is the one thing run.
C8_ReleaseRunsOneCommand ==
    /\ touch_event.kind = "press" => attempted = <<>> /\ executed = <<>>
    /\ \A b \in TouchButtons :
        (/\ touch_event.kind = "release"
         /\ touch_event.button = b
         /\ touch_options[b].configured
         /\ ~IsNone(last_press[b])) =>
            LET elapsed == touch_event.at - Val(last_press[b])
                expected == IF elapsed >= 1 * TicksPerSecond
                            THEN touch_options[b].long_press
                            ELSE touch_options[b].short_press
            IN  /\ attempted = <<expected>>
                /\ executed = IF expected \in {None, EmptyCommand} THEN <<>>
                              ELSE <<expected>>

\* A release exactly one second after the press has run the long_press command,
\* with the other button's press in between
C8_Witness ==
    \E b \in TouchButtons :
        /\ touch_event.kind = "release"
        /\ touch_event.button = b
        /\ ~IsNone(last_press[b])
        /\ touch_event.at - Val(last_press[b]) = TicksPerSecond
        /\ touch_options[b].short_press = Cmd("short", b)
        /\ executed = <<Cmd("long", b)>>
        /\ \E o \in TouchButtons \ {b} :
                ~IsNone(last_press[o]) /\ Val(last_press[o]) > Val(last_press[b])

--------------------------------------------------------------------------
(* Claims about src/OLED-Stats.py, src/OLED-Stats-subprocess.py and        *)
(* src/OLED-Statsv2.py                                                     *)

\* C9: in each of the three scripts, once on_unload has completed, every step
\* leaves the flag, screen_index, ip_index, last_update, ip_last_update, the
\* cached stats and both displays as they are, and a hook called then is an
\* on_ui_update that writes to no display and returns without raising.
C9_NoUpdateAfterUnload ==
    [][~active =>
        /\ UNCHANGED <<active, screen_index, ip_index, last_update, ip_last_update, stats,
                       oled1, oled2>>
        /\ oled_call' # oled_call => oled_call' = HookCall("on_ui_update", <<>>, FALSE)]_vars

\* OLED-Stats.py was unloaded when a refresh was due, and on_ui_update was
\* called after that
C9_Witness ==
    /\ oled_file = "OLED-Stats"
    /\ ~active
    /\ oled_call.name = "on_ui_update"
    /\ oled_now - last_update >= screen_update_interval
    /\ oled1 = Blank
    /\ oled2 = Blank

\* C10: in OLED-Stats.py, while active, screen_index stays in 0..3; an
\* on_ui_update call less than 5 s after the last refresh changes none of
\* screen_index, ip_index, last_update and the displays and writes to no
\* display; a call at or after 5 s advances screen_index by one modulo 4, sets
\* last_update to the current time, leaves the stats update_stats read in the
\* cache, and redraws both displays with the new screen's stat.
C10_RefreshEveryInterval ==
    /\ [](screen_index \in 0..3)
    /\ [][(active /\ \E k \in FailPoints, n \in 1..MaxIps : OnUiUpdate(k, n)) =>
            IF oled_now - last_update < 5
            THEN /\ UNCHANGED <<screen_index, ip_index, last_update, oled1, oled2>>
                 /\ oled_call'.writes = <<>>
            ELSE /\ screen_index' = (screen_index + 1) % 4
                 /\ last_update' = oled_now
                 /\ \E k \in FailPoints, n \in 1..MaxIps :
                        stats' = update_stats(stats, k, n, fetches)
                 /\ oled_call'.writes = <<1, 2>>
                 /\ oled1' = StatScreen(screen_index', stats')
                 /\ oled2'.kind = "clock"]_vars

\* C20: in OLED-Stats.py a failure inside update_stats is caught and the
\* next refresh still completes: no on_ui_update call raises, and every
\* field on the displays is a default or a value update_stats fetched.
C20_RefreshSurvivesFailure ==
    (oled_file = "OLED-Stats" /\ oled_call.name = "on_ui_update") =>
        /\ ~oled_call.raised
        /\ \A o \in {oled1, oled2} : Unset \notin {o.a, o.b, o.c}

--------------------------------------------------------------------------
(* Claims about src/eye-dev/eyes-pantilt.py                                *)

\* C11: a call draw_eyes(face=f) with f other than current_face has, when it
\* returns, set current_face to f and rendered at least one frame with face
\* f, so that the last displayed frame shows the new face.
C11_FaceChangeRendersFace ==
    (pt_pc = "idle" /\ last_call.name = "face")
        => /\ pt_drew
           /\ pt_frame.face = pt_current_face

\* C12: in look() the screen animation comes first and the servo movement
\* after it: whenever a pantilthat.pan/tilt command has been issued, the
\* on-screen look animation has drawn its last frame.
C12_ScreenBeforeServo ==
    servo.issued > 0 => pt_pc \notin {"look_start", "look"}

\* The eyes a value of current_closed names
ClosedEyes(closed) ==
    CASE closed = "both" -> {"left", "right"}
      [] closed = "left" -> {"left"}
      [] closed = "right" -> {"right"}
      [] OTHER -> {}

\* C16: eye_close(eye) called with the eyes open, whatever the heights and
\* the speed, returns with current_closed naming the eyes it was asked to
\* close and its last frame showing those eyes at the closed height.
C16_CloseEndsClosed ==
    [][(pt_pc = "close" /\ pt_pc' = "idle" /\ pt_current_closed \in {"False", "None"})
        => /\ pt_current_closed' = pt_call.eye
           /\ "left" \in EyesOf(pt_call.eye) => pt_frame'.height_left = 1
           /\ "right" \in EyesOf(pt_call.eye) => pt_frame'.height_right = 1]_vars

\* C17: eye_open(eye="both") called right after an eye_close(eye="both") that
\* left both eyes closed returns with current_closed None and its last frame
\* showing both eyes at their full configured heights.
C17_CloseOpenRoundTrip ==
    [][(/\ pt_pc = "open"
        /\ pt_pc' = "idle"
        /\ pt_call.eye = "both"
        /\ last_call = [name |-> "close", eye |-> "both"]
        /\ pt_current_closed = "both")
        => /\ pt_current_closed' = "None"
           /\ pt_frame'.height_left = pt_config.eye.left.height
           /\ pt_frame'.height_right = pt_config.eye.right.height]_vars

\* C18: when no call runs, current_closed names exactly the eyes that were
\* closed and not opened again.
C18_ClosedNamesClosedEyes ==
    pt_pc = "idle" => ClosedEyes(pt_current_closed) = closed_eyes

\* C19: after an eye_close(eye="both") has returned and until eye_open is
\* called, every frame a plain draw_eyes, a look or a blink draws shows both
\* eyes at the closed height.
C19_ClosedEyesStayClosed ==
    (since_close_both /\ pt_drew /\ pt_call.name \in {"draw_eyes", "look", "blink"})
        => /\ pt_frame.height_left = 1
           /\ pt_frame.height_right = 1

====
